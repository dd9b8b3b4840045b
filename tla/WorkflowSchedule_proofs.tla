---------------------- MODULE WorkflowSchedule_proofs ----------------------
(***************************************************************************)
(* Theorems about WorkflowSchedule: its types, the agreement of the        *)
(* document's fields, that no occurrence is run twice, that runs do not    *)
(* overlap unless a user withdrew a claim, that a task which ran lets go   *)
(* of its claim, and that no run is inserted for a disabled workflow.      *)
(***************************************************************************)
EXTENDS WorkflowSchedule, TLAPS

(* The next fire time is after now: an occurrence is never planned twice.  *)
LEMMA NextFireIsLater ==
  ASSUME NEW cron \in Crons, clock \in Nat
  PROVE  NextFire(cron) \in Nat /\ NextFire(cron) > clock
BY CronsAssumption DEF NextFire

DocumentOK == schedule \in Documents /\ schedule.locked <= clock + Lease

RestOK ==
  /\ clock \in 1..(Horizon + 1)
  /\ workflow \in {"enabled", "disabled", "missing"}
  /\ deleting \in {"no", "runs", "schedules"}
  /\ enabling \in Nat
  /\ calls \in 0..MaxCalls
  /\ stopping \subseteq Workers
  /\ minted \in 0..MaxClaims
  /\ owner \in [Claims -> Workers]
  /\ pc \in [Claims -> TaskStates]
  /\ beat \in [Claims -> Nat]
  /\ loaded \in [Claims -> Crons]
  /\ planned \in [Claims -> Nat]
  /\ cancelled \subseteq Claims
  /\ commit \subseteq Claims
  /\ run \in [Claims -> {"none", "running", "ended", "failed", "deleted"}]
  /\ due \in [Claims -> Nat]
  /\ withdrawn \subseteq Claims

(* TypeOK in two parts, the document and the rest, each with its step lemma. *)
LEMMA TypeParts == TypeOK <=> DocumentOK /\ RestOK
BY DEF TypeOK, DocumentOK, RestOK

(* The fields of a document have their types.                              *)
LEMMA DocumentFields ==
  ASSUME NEW s \in Documents
  PROVE  /\ s.state \in {"enabled", "disabled", "deleted"} /\ s.cron \in Crons
         /\ s.next \in Nat /\ s.locked \in Nat /\ s.token \in 0..MaxClaims
BY DEF Documents

(* The program counters, so that the set itself stays closed below.        *)
LEMMA StatesOK ==
  /\ {"queued", "entered", "loaded", "disabling", "inserting", "failing", "recording"} \subseteq TaskStates
  /\ {"executing", "finishing", "releasing", "unborn", "done", "dead"} \subseteq TaskStates
BY DEF TaskStates, Live, Waiting, Inside

(* The documents that the code writes are documents.                       *)
LEMMA UnclaimedOK ==
  ASSUME clock \in Nat, NEW state \in {"enabled", "disabled", "deleted"},
         NEW cron \in Crons, NEW next \in Nat
  PROVE  /\ Unclaimed(state, cron, next) \in Documents
         /\ Unclaimed(state, cron, next).locked <= clock + Lease
BY BoundsAssumption DEF Documents, Unclaimed, None

LEMMA NewNextOK ==
  ASSUME NEW s \in Documents, NEW n \in Nat
  PROVE  [s EXCEPT !.next = n] \in Documents /\ [s EXCEPT !.next = n].locked = s.locked
BY DEF Documents

LEMMA NewCronOK ==
  ASSUME NEW s \in Documents, NEW cron \in Crons, NEW n \in Nat
  PROVE  /\ [s EXCEPT !.cron = cron, !.next = n] \in Documents
         /\ [s EXCEPT !.cron = cron, !.next = n].locked = s.locked
BY DEF Documents

LEMMA NewLockOK ==
  ASSUME NEW s \in Documents, NEW n \in Nat
  PROVE  [s EXCEPT !.locked = n] \in Documents /\ [s EXCEPT !.locked = n].locked = n
BY DEF Documents

LEMMA NewClaimOK ==
  ASSUME schedule \in Documents, minted + 1 \in 0..MaxClaims, clock + Lease \in Nat
  PROVE  /\ [schedule EXCEPT !.token = minted + 1, !.locked = clock + Lease] \in Documents
         /\ [schedule EXCEPT !.token = minted + 1, !.locked = clock + Lease].locked = clock + Lease
<1>1. ASSUME NEW s \in Documents, NEW c \in 0..MaxClaims, NEW n \in Nat
      PROVE  /\ [s EXCEPT !.token = c, !.locked = n] \in Documents
             /\ [s EXCEPT !.token = c, !.locked = n].locked = n
  BY DEF Documents
<1> QED BY <1>1, Zenon

(* Every step leaves a document, locked for at most a lease from now.      *)
LEMMA DocumentStep == TypeOK /\ [Next]_vars => DocumentOK'
<1> SUFFICES ASSUME DocumentOK, RestOK, [Next]_vars PROVE DocumentOK'
  BY TypeParts
<1>b. Lease \in Nat /\ clock \in Nat /\ clock + Lease \in Nat /\ enabling \in Nat
  BY BoundsAssumption DEF RestOK
<1>p. /\ \A c \in Claims : planned[c] \in Nat
      /\ minted < MaxClaims => minted + 1 \in 0..MaxClaims
  BY BoundsAssumption DEF RestOK
<1>s. /\ schedule \in Documents /\ schedule.locked <= clock + Lease
      /\ schedule.cron \in Crons /\ schedule.next \in Nat /\ schedule.locked \in Nat
      /\ schedule.state \in {"enabled", "disabled", "deleted"}
  BY DocumentFields DEF DocumentOK
<1>d. /\ Disabled(schedule) \in Documents /\ Disabled(schedule).locked <= clock + Lease
      /\ Deleted(schedule) \in Documents /\ Deleted(schedule).locked <= clock + Lease
      /\ Unlocked(schedule) \in Documents /\ Unlocked(schedule).locked <= clock + Lease
  BY <1>b, <1>s, UnclaimedOK DEF Disabled, Deleted, Unlocked, None
<1>1. ASSUME NEW w \in Workers, ClaimDue(w) PROVE DocumentOK'
  <2>1. /\ schedule' = [schedule EXCEPT !.token = minted + 1, !.locked = clock + Lease]
        /\ minted < MaxClaims /\ clock' = clock
    BY <1>1 DEF ClaimDue, Put, LockFromNow
  <2>2. /\ [schedule EXCEPT !.token = minted + 1, !.locked = clock + Lease] \in Documents
        /\ [schedule EXCEPT !.token = minted + 1, !.locked = clock + Lease].locked = clock + Lease
    BY <1>b, <1>s, <1>p, <2>1, NewClaimOK
  <2>. QED
    BY <1>b, <2>1, <2>2 DEF DocumentOK
<1>2. ASSUME NEW w \in Workers, Shutdown(w) PROVE DocumentOK'
  BY <1>2 DEF DocumentOK, api, document, history, Shutdown
<1>3. ASSUME NEW w \in Workers, Restart(w) PROVE DocumentOK'
  BY <1>3 DEF DocumentOK, api, document, task, history, Restart
<1>4. ASSUME NEW w \in Workers, Crash(w) PROVE DocumentOK'
  BY <1>4 DEF DocumentOK, api, document, history, Crash
<1>5. ASSUME NEW c \in Claims, Enter(c) PROVE DocumentOK'
  BY <1>5 DEF DocumentOK, api, document, history, At, Enter
<1>6. ASSUME NEW c \in Claims, LoadClaim(c) PROVE DocumentOK'
  BY <1>6 DEF DocumentOK, api, document, history, At, Leave, LoadClaim
<1>7. ASSUME NEW c \in Claims, ReadDefinition(c) PROVE DocumentOK'
  BY <1>7 DEF DocumentOK, api, document, history, At, ReadDefinition
<1>8. ASSUME NEW c \in Claims, DisableClaim(c) PROVE DocumentOK'
  BY <1>8, <1>s, <1>d DEF DocumentOK, api, document, history, Put, FencedPut, At, Leave,
     DisableClaim
<1>9. ASSUME NEW c \in Claims, Insert(c) PROVE DocumentOK'
  BY <1>9, <1>s, NewNextOK, <1>p DEF DocumentOK, api, document, history, Put, At, Leave,
     AdvanceAndInsertRun, Insert
<1>10. ASSUME NEW c \in Claims, RunReturns(c) PROVE DocumentOK'
  BY <1>10 DEF DocumentOK, api, document, history, At, RunReturns
<1>11. ASSUME NEW c \in Claims, FinishClaim(c) PROVE DocumentOK'
  BY <1>11, <1>s, <1>d DEF DocumentOK, api, document, history, Put, FencedPut, At, Leave,
     FinishClaim
<1>12. ASSUME NEW c \in Claims, FailInserted(c) PROVE DocumentOK'
  BY <1>12 DEF DocumentOK, api, document, history, At, FailInserted
<1>13. ASSUME NEW c \in Claims, ReleaseClaim(c) PROVE DocumentOK'
  BY <1>13, <1>s, <1>d DEF DocumentOK, api, document, history, Put, FencedPut, At, Leave,
     ReleaseClaim
<1>14. ASSUME NEW c \in Claims, Raise(c) PROVE DocumentOK'
  BY <1>14 DEF DocumentOK, api, document, history, At, Leave, Raise
<1>15. ASSUME NEW c \in Claims, CancelPreparing(c) PROVE DocumentOK'
  BY <1>15, <1>s, <1>d DEF DocumentOK, api, document, history, Put, FencedPut, At,
     Cancel, CancelPreparing
<1>16. ASSUME NEW c \in Claims, CancelInsert(c) PROVE DocumentOK'
  <2>1. /\ clock' = clock
        /\ schedule' = schedule \/ schedule' = [schedule EXCEPT !.next = planned[c]]
    BY <1>16 DEF document, Put, AdvanceAndInsertRun, CancelInsert
  <2>2. /\ [schedule EXCEPT !.next = planned[c]] \in Documents
        /\ [schedule EXCEPT !.next = planned[c]].locked = schedule.locked
    BY <1>s, <1>p, NewNextOK
  <2>. QED
    BY <1>s, <2>1, <2>2 DEF DocumentOK
<1>17. ASSUME NEW c \in Claims, CancelExecution(c) PROVE DocumentOK'
  BY <1>17 DEF DocumentOK, api, document, history, At, Cancel, CancelExecution
<1>18. ASSUME NEW c \in Claims, CancelLastCall(c) PROVE DocumentOK'
  BY <1>18, <1>s, <1>d DEF DocumentOK, api, document, history, Put, FencedPut, At, Leave,
     Cancel, CancelLastCall
<1>19. ASSUME NEW c \in Claims, Renew(c) PROVE DocumentOK'
  <2>1. /\ clock' = clock
        /\ schedule' = schedule \/ schedule' = [schedule EXCEPT !.locked = clock + Lease]
    BY <1>19 DEF document, Put, FencedPut, LockFromNow, Renew
  <2>2. /\ [schedule EXCEPT !.locked = clock + Lease] \in Documents
        /\ [schedule EXCEPT !.locked = clock + Lease].locked = clock + Lease
    BY <1>b, <1>s, NewLockOK
  <2>3. clock + Lease <= clock + Lease
    BY <1>b
  <2>. QED
    BY <1>s, <2>1, <2>2, <2>3 DEF DocumentOK
<1>20. ASSUME NEW c \in Claims, Lapse(c) PROVE DocumentOK'
  BY <1>20 DEF DocumentOK, api, document, history, Lapse
<1>21. ASSUME NEW c \in Claims, CommitLate(c) PROVE DocumentOK'
  BY <1>21, <1>s, NewNextOK, <1>p DEF DocumentOK, api, history, CommitLate
<1>22. ASSUME NEW c \in Claims, ReapRun(c) PROVE DocumentOK'
  BY <1>22 DEF DocumentOK, api, document, task, history, ReapRun
<1>23. CASE Tick
  BY <1>23, <1>b, <1>s DEF DocumentOK, api, document, task, history, Tick
<1>24. CASE BeginEnable
  BY <1>24 DEF DocumentOK, task, Elsewhere, Call, BeginEnable
<1>25. CASE CommitEnable
  BY <1>25, <1>b, <1>s, UnclaimedOK DEF DocumentOK, api, task, Elsewhere, Put, None,
     CommitEnable
<1>26. CASE DisableSchedule
  BY <1>26, <1>s, <1>d DEF DocumentOK, task, Elsewhere, Call, Withdraw, Put, DisableSchedule
<1>27. CASE DeleteSchedule
  BY <1>27, <1>s, <1>d DEF DocumentOK, task, Elsewhere, Call, Withdraw, Put, DeleteSchedule
<1>28. CASE DisableWorkflow
  BY <1>28, <1>s, <1>d DEF DocumentOK, document, task, Elsewhere, Call, Withdraw, Put,
     Cascade, DisableWorkflow
<1>29. CASE EnableWorkflow
  BY <1>29 DEF DocumentOK, document, task, Elsewhere, Call, EnableWorkflow
<1>30. CASE DeleteRuns
  BY <1>30 DEF DocumentOK, document, task, history, Call, DeleteRuns
<1>31. CASE DeleteSchedules
  BY <1>31, <1>s, <1>d DEF DocumentOK, document, task, Elsewhere, Withdraw, Put,
     DeleteSchedules
<1>32. CASE DeleteDefinition
  BY <1>32 DEF DocumentOK, document, task, Elsewhere, DeleteDefinition
<1>33. ASSUME NEW cron \in Crons, ChangeCron(cron) PROVE DocumentOK'
  <2>. DEFINE n == IF schedule.state = "enabled" THEN NextFire(cron) ELSE schedule.next
  <2>1. clock' = clock /\ schedule' = [schedule EXCEPT !.cron = cron, !.next = n]
    BY <1>33 DEF Elsewhere, Put, ChangeCron
  <2>2. n \in Nat
    BY <1>b, <1>s, NextFireIsLater
  <2>. HIDE DEF n
  <2>3. /\ [schedule EXCEPT !.cron = cron, !.next = n] \in Documents
        /\ [schedule EXCEPT !.cron = cron, !.next = n].locked = schedule.locked
    BY <1>s, <2>2, NewCronOK
  <2>. QED
    BY <1>s, <2>1, <2>3 DEF DocumentOK
<1>34. CASE UNCHANGED vars
  BY <1>34 DEF DocumentOK, vars, api, document, task, history
<1>. QED
  BY <1>1, <1>2, <1>3, <1>4, <1>5, <1>6, <1>7, <1>8, <1>9, <1>10, <1>11, <1>12, <1>13,
     <1>14, <1>15, <1>16, <1>17, <1>18, <1>19, <1>20, <1>21, <1>22, <1>23, <1>24, <1>25,
     <1>26, <1>27, <1>28, <1>29, <1>30, <1>31, <1>32, <1>33, <1>34 DEF Next, TaskStep,
     Drained, ApiStep

(* Every step keeps the types of the other variables.                      *)
LEMMA RestStep == TypeOK /\ [Next]_vars => RestOK'
<1> SUFFICES ASSUME DocumentOK, RestOK, [Next]_vars PROVE RestOK'
  BY TypeParts
<1>t. withdrawn \cup ({schedule.token} \ {None}) \subseteq Claims
  <2>1. schedule.token \in 0..MaxClaims /\ MaxClaims \in Nat
    BY DocumentFields, BoundsAssumption DEF DocumentOK
  <2>2. {schedule.token} \ {0} \subseteq 1..MaxClaims
    BY <2>1
  <2>. QED
    BY <2>2 DEF RestOK, Claims, None
<1>b. /\ Horizon \in Nat /\ MaxClaims \in Nat /\ MaxCalls \in Nat
  BY BoundsAssumption
<1>1. ASSUME NEW w \in Workers, ClaimDue(w) PROVE RestOK'
  <2>1. /\ clock + Lease \in Nat /\ schedule.next \in Nat
        /\ minted + 1 \in 0..MaxClaims /\ minted + 1 \in Claims
    BY <1>1, <1>b, BoundsAssumption, DocumentFields DEF RestOK, DocumentOK, ClaimDue, Claims
  <2>2. /\ owner' = [owner EXCEPT ![minted + 1] = w]
        /\ beat' = [beat EXCEPT ![minted + 1] = clock + Lease]
        /\ due' = [due EXCEPT ![minted + 1] = schedule.next]
        /\ pc' = [pc EXCEPT ![minted + 1] = "queued"]
        /\ minted' = minted + 1 /\ enabling' = None
    BY <1>1 DEF ClaimDue, Put, At, LockFromNow
  <2>3. UNCHANGED <<clock, workflow, deleting, calls, stopping, loaded, planned, cancelled,
                    commit, run, withdrawn>>
    BY <1>1 DEF ClaimDue, api
  <2>. QED
    BY <2>1, <2>2, <2>3, StatesOK DEF RestOK, None
<1>2. ASSUME NEW w \in Workers, Shutdown(w) PROVE RestOK'
  BY <1>2, StatesOK DEF RestOK, api, document, history, Shutdown
<1>3. ASSUME NEW w \in Workers, Restart(w) PROVE RestOK'
  BY <1>3, <1>b, StatesOK DEF RestOK, api, document, task, history, Restart
<1>4. ASSUME NEW w \in Workers, Crash(w) PROVE RestOK'
  BY <1>4, StatesOK DEF RestOK, api, document, history, None, Crash
<1>5. ASSUME NEW c \in Claims, Enter(c) PROVE RestOK'
  BY <1>5, <1>b, StatesOK DEF RestOK, api, document, history, At, Enter
<1>6. ASSUME NEW c \in Claims, LoadClaim(c) PROVE RestOK'
  BY <1>6, <1>b, StatesOK, DocumentFields DEF RestOK, api, document, history, At, Leave,
     None, DocumentOK, LoadClaim
<1>7. ASSUME NEW c \in Claims, ReadDefinition(c) PROVE RestOK'
  BY <1>7, <1>b, StatesOK, NextFireIsLater DEF RestOK, api, document, history, At,
     ReadDefinition
<1>8. ASSUME NEW c \in Claims, DisableClaim(c) PROVE RestOK'
  BY <1>8, <1>b, StatesOK DEF RestOK, api, document, history, Put, FencedPut, At, Leave,
     None, DisableClaim
<1>9. ASSUME NEW c \in Claims, Insert(c) PROVE RestOK'
  BY <1>9, <1>b, StatesOK DEF RestOK, api, document, history, Put, At, Leave,
     AdvanceAndInsertRun, None, Insert
<1>10. ASSUME NEW c \in Claims, RunReturns(c) PROVE RestOK'
  BY <1>10, <1>b, StatesOK DEF RestOK, api, document, history, At, RunReturns
<1>11. ASSUME NEW c \in Claims, FinishClaim(c) PROVE RestOK'
  BY <1>11, <1>b, StatesOK DEF RestOK, api, document, history, Put, FencedPut, At, Leave,
     None, FinishClaim
<1>12. ASSUME NEW c \in Claims, FailInserted(c) PROVE RestOK'
  BY <1>12, <1>b, StatesOK DEF RestOK, api, document, history, At, FailInserted
<1>13. ASSUME NEW c \in Claims, ReleaseClaim(c) PROVE RestOK'
  BY <1>13, <1>b, StatesOK DEF RestOK, api, document, history, Put, FencedPut, At, Leave,
     None, ReleaseClaim
<1>14. ASSUME NEW c \in Claims, Raise(c) PROVE RestOK'
  BY <1>14, <1>b, StatesOK DEF RestOK, api, document, history, At, Leave, None, Raise
<1>15. ASSUME NEW c \in Claims, CancelPreparing(c) PROVE RestOK'
  BY <1>15, <1>b, StatesOK DEF RestOK, api, document, history, Put, FencedPut, At,
     Cancel, None, CancelPreparing
<1>16. ASSUME NEW c \in Claims, CancelInsert(c) PROVE RestOK'
  BY <1>16, <1>b, StatesOK DEF RestOK, api, document, history, Put, At, Cancel,
     AdvanceAndInsertRun, None, CancelInsert
<1>17. ASSUME NEW c \in Claims, CancelExecution(c) PROVE RestOK'
  BY <1>17, <1>b, StatesOK DEF RestOK, api, document, history, At, Cancel, CancelExecution
<1>18. ASSUME NEW c \in Claims, CancelLastCall(c) PROVE RestOK'
  BY <1>18, <1>b, StatesOK DEF RestOK, api, document, history, Put, FencedPut, At, Leave,
     Cancel, None, CancelLastCall
<1>19. ASSUME NEW c \in Claims, Renew(c) PROVE RestOK'
  BY <1>19, <1>b, StatesOK, BoundsAssumption DEF RestOK, api, document, history, Put,
     FencedPut, None, LockFromNow, Renew
<1>20. ASSUME NEW c \in Claims, Lapse(c) PROVE RestOK'
  BY <1>20, <1>b, StatesOK DEF RestOK, api, document, history, None, Lapse
<1>21. ASSUME NEW c \in Claims, CommitLate(c) PROVE RestOK'
  BY <1>21, <1>b, StatesOK DEF RestOK, api, history, CommitLate
<1>22. ASSUME NEW c \in Claims, ReapRun(c) PROVE RestOK'
  BY <1>22, <1>b, StatesOK DEF RestOK, api, document, task, history, ReapRun
<1>23. CASE Tick
  BY <1>23, <1>b DEF RestOK, api, document, task, history, Tick
<1>24. CASE BeginEnable
  BY <1>24, <1>b, NextFireIsLater, DocumentFields DEF RestOK, task, Elsewhere, Call,
     None, DocumentOK, BeginEnable
<1>25. CASE CommitEnable
  BY <1>25, <1>b, StatesOK DEF RestOK, api, task, Elsewhere, Put, None, CommitEnable
<1>26. CASE DisableSchedule
  <2>1. /\ calls' = calls + 1 /\ calls < MaxCalls /\ enabling' = None
        /\ withdrawn' = withdrawn \cup ({schedule.token} \ {None})
    BY <1>26 DEF DisableSchedule, Call, Put, Withdraw
  <2>2. UNCHANGED <<clock, workflow, deleting, stopping, minted, owner, pc, beat, loaded,
                    planned, cancelled, commit, run, due>>
    BY <1>26 DEF DisableSchedule, Elsewhere, task
  <2>. QED
    BY <1>b, <1>t, <2>1, <2>2 DEF RestOK, None
<1>27. CASE DeleteSchedule
  <2>1. /\ calls' = calls + 1 /\ calls < MaxCalls /\ enabling' = None
        /\ withdrawn' = withdrawn \cup ({schedule.token} \ {None})
    BY <1>27 DEF DeleteSchedule, Call, Put, Withdraw
  <2>2. UNCHANGED <<clock, workflow, deleting, stopping, minted, owner, pc, beat, loaded,
                    planned, cancelled, commit, run, due>>
    BY <1>27 DEF DeleteSchedule, Elsewhere, task
  <2>. QED
    BY <1>b, <1>t, <2>1, <2>2 DEF RestOK, None
<1>28. CASE DisableWorkflow
  <2>1. /\ calls' = calls + 1 /\ calls < MaxCalls /\ workflow' = "disabled"
        /\ enabling' = enabling \/ enabling' = None
        /\ \/ withdrawn' = withdrawn \cup ({schedule.token} \ {None})
           \/ withdrawn' = withdrawn
    BY <1>28 DEF DisableWorkflow, Cascade, Call, Put, Withdraw, document
  <2>2. UNCHANGED <<clock, deleting, stopping, minted, owner, pc, beat, loaded,
                    planned, cancelled, commit, run, due>>
    BY <1>28 DEF DisableWorkflow, Elsewhere, task
  <2>. QED
    BY <1>b, <1>t, <2>1, <2>2 DEF RestOK, None
<1>29. CASE EnableWorkflow
  BY <1>29, <1>b, StatesOK DEF RestOK, document, task, Elsewhere, Call, EnableWorkflow
<1>30. CASE DeleteRuns
  BY <1>30, <1>b, StatesOK DEF RestOK, document, task, history, Call, DeleteRuns
<1>31. CASE DeleteSchedules
  <2>1. /\ deleting' = "schedules"
        /\ enabling' = enabling \/ enabling' = None
        /\ \/ withdrawn' = withdrawn \cup ({schedule.token} \ {None})
           \/ withdrawn' = withdrawn
    BY <1>31 DEF DeleteSchedules, Put, Withdraw, document
  <2>2. UNCHANGED <<clock, workflow, calls, stopping, minted, owner, pc, beat, loaded,
                    planned, cancelled, commit, run, due>>
    BY <1>31 DEF DeleteSchedules, Elsewhere, task
  <2>. QED
    BY <1>b, <1>t, <2>1, <2>2 DEF RestOK, None
<1>32. CASE DeleteDefinition
  BY <1>32, <1>b, StatesOK DEF RestOK, document, task, Elsewhere, DeleteDefinition
<1>33. ASSUME NEW cron \in Crons, ChangeCron(cron) PROVE RestOK'
  BY <1>33, <1>b, StatesOK DEF RestOK, task, Elsewhere, Call, Put, None, ChangeCron
<1>34. CASE UNCHANGED vars
  BY <1>34 DEF RestOK, vars, api, document, task, history
<1>. QED
  BY <1>1, <1>2, <1>3, <1>4, <1>5, <1>6, <1>7, <1>8, <1>9, <1>10, <1>11, <1>12, <1>13,
     <1>14, <1>15, <1>16, <1>17, <1>18, <1>19, <1>20, <1>21, <1>22, <1>23, <1>24, <1>25,
     <1>26, <1>27, <1>28, <1>29, <1>30, <1>31, <1>32, <1>33, <1>34 DEF Next, TaskStep,
     Drained, ApiStep

(* The initial states have their types.                                    *)
LEMMA InitTypeOK == Init => TypeOK
<1>. SUFFICES ASSUME Init PROVE TypeOK
  OBVIOUS
<1>1. clock = 1 /\ 1 \in 1..(Horizon + 1) /\ MaxClaims \in Nat /\ MaxCalls \in Nat
  BY BoundsAssumption DEF Init
<1>2. DocumentOK
  <2>1. PICK cron \in Crons : schedule = Unclaimed("disabled", cron, None)
    BY DEF Init
  <2>. QED
    BY <1>1, <2>1, UnclaimedOK DEF DocumentOK, None
<1>3. RestOK
  BY <1>1, <1>2, StatesOK, DocumentFields DEF Init, RestOK, DocumentOK, None
<1>. QED
  BY <1>2, <1>3, TypeParts

(* Types are preserved.                                                    *)
LEMMA TypeStep == TypeOK /\ [Next]_vars => TypeOK'
BY DocumentStep, RestStep, TypeParts DEF TypeOK, DocumentOK, RestOK

(* Every variable keeps its type.                                          *)
THEOREM TypeCorrect == Spec => []TypeOK
BY InitTypeOK, TypeStep, PTL DEF Spec

-----------------------------------------------------------------------------
(* One run per occurrence.  What a step does to the document, to the runs  *)
(* and to the histories is one of the effects below; the invariant is      *)
(* preserved by each.                                                      *)

Inserted == {c \in Claims : run[c] # "none"}

EnablingDisabled == schedule.state = "enabled" => enabling = None
CommitHolds == \A c \in commit : commit = {c} /\ Holds(c) /\ schedule.state = "enabled"
Settled == \A c \in commit : pc[c] \in {"failing", "recording", "releasing", "done", "dead"}
Minted == \A c \in Claims : c > minted => pc[c] = "unborn" /\ run[c] = "none"
DuePast == \A c \in Claims : due[c] <= clock
PlannedLater == \A c \in Claims : pc[c] = "inserting" \/ c \in commit => planned[c] > due[c]
NextLater ==
  \A d \in Inserted : /\ schedule.next = None \/ schedule.next > due[d]
                      /\ enabling = None \/ enabling > due[d]
HolderLatest == \A c \in Claims : Holds(c) => \A d \in Inserted \ {c} : due[d] < due[c]

DocumentInv == StateFieldsAgree /\ EnablingDisabled /\ CommitHolds
TaskInv == Settled /\ Minted /\ DuePast /\ PlannedLater
OccurrenceInv == NextLater /\ HolderLatest /\ OneRunPerOccurrence
IInv == TypeOK /\ DocumentInv /\ TaskInv /\ OccurrenceInv

SameRuns == Inserted' = Inserted /\ UNCHANGED due
Idle == UNCHANGED <<schedule, enabling, commit>> /\ SameRuns
Cleared ==
  /\ commit = {} /\ enabling' = None /\ UNCHANGED commit /\ SameRuns
  /\ schedule' \in {Disabled(schedule), Deleted(schedule), Unlocked(schedule)}
Renewed ==
  /\ commit = {} /\ enabling' = None /\ UNCHANGED commit /\ SameRuns
  /\ schedule' = [schedule EXCEPT !.locked = LockFromNow]
  /\ schedule.token # None
Claimed ==
  /\ commit = {} /\ enabling' = None /\ UNCHANGED commit /\ Inserted' = Inserted
  /\ Claimable /\ minted + 1 \in Claims
  /\ schedule' = [schedule EXCEPT !.token = minted + 1, !.locked = LockFromNow]
  /\ due' = [due EXCEPT ![minted + 1] = schedule.next]
Advanced(c) ==
  /\ Holds(c) /\ schedule.state = "enabled"
  /\ \/ pc[c] = "inserting" /\ commit = {}
     \/ commit = {c}
  /\ schedule' = [schedule EXCEPT !.next = planned[c]]
  /\ enabling' = None \/ enabling' = enabling
  /\ commit' = {}
  /\ Inserted' = Inserted \cup {c} /\ UNCHANGED due
Opened(c) ==
  /\ commit = {} /\ commit' = {c} /\ Advances(c)
  /\ UNCHANGED <<schedule, enabling>> /\ SameRuns
Closed == commit' \subseteq commit /\ UNCHANGED <<schedule, enabling>> /\ SameRuns
Began ==
  /\ schedule.state = "disabled" /\ enabling' > clock /\ enabling' \in Nat
  /\ UNCHANGED <<schedule, commit>> /\ SameRuns
Enabled ==
  /\ commit = {} /\ enabling # None /\ enabling' = None /\ UNCHANGED commit /\ SameRuns
  /\ schedule' = Unclaimed("enabled", schedule.cron, enabling)
Edited ==
  /\ commit = {} /\ enabling' = None /\ UNCHANGED commit /\ SameRuns
  /\ \E cron \in Crons, n \in Nat :
       /\ schedule' = [schedule EXCEPT !.cron = cron, !.next = n]
       /\ IF schedule.state = "enabled" THEN n > clock ELSE n = schedule.next

Effect ==
  \/ Idle \/ Cleared \/ Renewed \/ Claimed \/ (\E c \in Claims : Advanced(c) \/ Opened(c))
  \/ Closed \/ Began \/ Enabled \/ Edited

(* A transaction that inserts a run inserts one run.                       *)
LEMMA RunInserted ==
  ASSUME NEW c \in Claims, run \in [Claims -> {"none", "running", "ended", "failed", "deleted"}],
         run' = [run EXCEPT ![c] = "running"]
  PROVE  Inserted' = Inserted \cup {c}
BY DEF Inserted

(* Every step has one of the effects.                                      *)
LEMMA StepEffect == TypeOK /\ DocumentInv /\ [Next]_vars => Effect
<1> SUFFICES ASSUME TypeOK, DocumentInv, [Next]_vars PROVE Effect
  OBVIOUS
<1>t. run \in [Claims -> {"none", "running", "ended", "failed", "deleted"}]
  BY DEF TypeOK
<1>1. ASSUME NEW w \in Workers, ClaimDue(w) PROVE Effect
  <2>1. /\ Claimable /\ minted < MaxClaims /\ commit = {}
        /\ schedule' = [schedule EXCEPT !.token = minted + 1, !.locked = LockFromNow]
        /\ enabling' = None /\ due' = [due EXCEPT ![minted + 1] = schedule.next]
        /\ UNCHANGED <<commit, run>>
    BY <1>1 DEF ClaimDue, Put
  <2>2. minted + 1 \in Claims
    BY <2>1, BoundsAssumption DEF TypeOK, Claims
  <2>3. Claimed
    BY <2>1, <2>2 DEF Claimed, Inserted
  <2>. QED
    BY <2>3 DEF Effect
<1>2. ASSUME NEW w \in Workers, Shutdown(w) PROVE Effect
  <2>1. Idle
    BY <1>2, <1>t DEF api, document, history, Shutdown, Idle, SameRuns, Inserted
  <2>. QED
    BY <2>1 DEF Effect
<1>3. ASSUME NEW w \in Workers, Restart(w) PROVE Effect
  <2>1. Idle
    BY <1>3, <1>t DEF api, document, task, history, Restart, Idle, SameRuns, Inserted
  <2>. QED
    BY <2>1 DEF Effect
<1>4. ASSUME NEW w \in Workers, Crash(w) PROVE Effect
  <2>1. Idle
    BY <1>4, <1>t DEF api, document, history, Crash, Idle, SameRuns, Inserted
  <2>. QED
    BY <2>1 DEF Effect
<1>5. ASSUME NEW c \in Claims, Enter(c) PROVE Effect
  <2>1. Idle
    BY <1>5, <1>t DEF api, document, history, At, Enter, Idle, SameRuns, Inserted
  <2>. QED
    BY <2>1 DEF Effect
<1>6. ASSUME NEW c \in Claims, LoadClaim(c) PROVE Effect
  <2>1. Idle
    BY <1>6, <1>t DEF api, document, history, At, Leave, LoadClaim, Idle, SameRuns, Inserted
  <2>. QED
    BY <2>1 DEF Effect
<1>7. ASSUME NEW c \in Claims, ReadDefinition(c) PROVE Effect
  <2>1. Idle
    BY <1>7, <1>t DEF api, document, history, At, ReadDefinition, Idle, SameRuns, Inserted
  <2>. QED
    BY <2>1 DEF Effect
<1>8. ASSUME NEW c \in Claims, DisableClaim(c) PROVE Effect
  <2>1. Idle \/ Cleared
    BY <1>8, <1>t DEF api, history, document, Put, FencedPut, At, Leave, DisableClaim,
       Idle, Cleared, SameRuns, Inserted
  <2>. QED
    BY <2>1 DEF Effect
<1>9. ASSUME NEW c \in Claims, Insert(c) PROVE Effect
  <2>1. CASE Advances(c)
    <3>1. /\ pc[c] = "inserting" /\ Holds(c) /\ schedule.state = "enabled" /\ commit = {}
          /\ schedule' = [schedule EXCEPT !.next = planned[c]] /\ enabling' = None
          /\ run' = [run EXCEPT ![c] = "running"] /\ UNCHANGED <<commit, due>>
      BY <1>9, <2>1 DEF Insert, Advances, AdvanceAndInsertRun, Put, history
    <3>2. Advanced(c)
      BY <1>t, <3>1, RunInserted DEF Advanced
    <3>. QED
      BY <3>2 DEF Effect
  <2>2. CASE ~Advances(c)
    <3>1. Idle
      BY <1>9, <2>2 DEF Insert, document, history, Idle, SameRuns, Inserted
    <3>. QED
      BY <3>1 DEF Effect
  <2>. QED
    BY <2>1, <2>2
<1>10. ASSUME NEW c \in Claims, RunReturns(c) PROVE Effect
  <2>1. Idle
    BY <1>10, <1>t DEF api, document, history, At, RunReturns, Idle, SameRuns, Inserted
  <2>. QED
    BY <2>1 DEF Effect
<1>11. ASSUME NEW c \in Claims, FinishClaim(c) PROVE Effect
  <2>1. Idle \/ Cleared
    BY <1>11, <1>t DEF api, history, document, Put, FencedPut, At, Leave, FinishClaim,
       Idle, Cleared, SameRuns, Inserted
  <2>. QED
    BY <2>1 DEF Effect
<1>12. ASSUME NEW c \in Claims, FailInserted(c) PROVE Effect
  <2>1. Idle
    BY <1>12, <1>t DEF api, document, history, At, FailInserted, Idle, SameRuns, Inserted
  <2>. QED
    BY <2>1 DEF Effect
<1>13. ASSUME NEW c \in Claims, ReleaseClaim(c) PROVE Effect
  <2>1. Idle \/ Cleared
    BY <1>13, <1>t DEF api, history, document, Put, FencedPut, At, Leave, ReleaseClaim,
       Idle, Cleared, SameRuns, Inserted
  <2>. QED
    BY <2>1 DEF Effect
<1>14. ASSUME NEW c \in Claims, Raise(c) PROVE Effect
  <2>1. Idle
    BY <1>14, <1>t DEF api, document, history, At, Leave, Raise, Idle, SameRuns, Inserted
  <2>. QED
    BY <2>1 DEF Effect
<1>15. ASSUME NEW c \in Claims, CancelPreparing(c) PROVE Effect
  <2>1. Idle \/ Cleared
    BY <1>15, <1>t DEF api, document, history, Put, FencedPut, At, Cancel,
       CancelPreparing, Idle, Cleared, SameRuns, Inserted
  <2>. QED
    BY <2>1 DEF Effect
<1>16. ASSUME NEW c \in Claims, CancelInsert(c) PROVE Effect
  <2>1. CASE Advances(c) /\ AdvanceAndInsertRun(c) /\ UNCHANGED commit
    <3>1. /\ pc[c] = "inserting" /\ Holds(c) /\ schedule.state = "enabled" /\ commit = {}
          /\ schedule' = [schedule EXCEPT !.next = planned[c]] /\ enabling' = None
          /\ run' = [run EXCEPT ![c] = "running"] /\ UNCHANGED <<commit, due>>
      BY <1>16, <2>1 DEF CancelInsert, Advances, AdvanceAndInsertRun, Put, history
    <3>2. Advanced(c)
      BY <1>t, <3>1, RunInserted DEF Advanced
    <3>. QED
      BY <3>2 DEF Effect
  <2>2. CASE UNCHANGED <<document, run, commit>>
    <3>1. Idle
      BY <1>16, <2>2 DEF CancelInsert, document, history, Idle, SameRuns, Inserted
    <3>. QED
      BY <3>1 DEF Effect
  <2>3. CASE Advances(c) /\ commit = {} /\ commit' = {c} /\ UNCHANGED <<document, run>>
    <3>1. Opened(c)
      BY <1>16, <2>3 DEF CancelInsert, document, history, Opened, SameRuns, Inserted
    <3>. QED
      BY <3>1 DEF Effect
  <2>. QED
    BY <1>16, <2>1, <2>2, <2>3 DEF CancelInsert
<1>17. ASSUME NEW c \in Claims, CancelExecution(c) PROVE Effect
  <2>1. Idle
    BY <1>17, <1>t DEF api, document, history, At, Cancel, CancelExecution, Idle,
       SameRuns, Inserted
  <2>. QED
    BY <2>1 DEF Effect
<1>18. ASSUME NEW c \in Claims, CancelLastCall(c) PROVE Effect
  <2>1. Idle \/ Cleared
    BY <1>18, <1>t DEF api, document, history, Put, FencedPut, At, Leave, Cancel,
       CancelLastCall, Idle, Cleared, SameRuns, Inserted
  <2>. QED
    BY <2>1 DEF Effect
<1>19. ASSUME NEW c \in Claims, Renew(c) PROVE Effect
  <2>1. UNCHANGED <<commit, run, due>> /\ SameRuns
    BY <1>19 DEF Renew, history, SameRuns, Inserted
  <2>2. CASE Holds(c)
    <3>1. /\ commit = {} /\ enabling' = None
          /\ schedule' = [schedule EXCEPT !.locked = LockFromNow]
      BY <1>19, <2>2 DEF Renew, FencedPut, Put
    <3>2. schedule.token # None
      BY <2>2, BoundsAssumption DEF Holds, Claims, None
    <3>3. Renewed
      BY <2>1, <3>1, <3>2 DEF Renewed
    <3>. QED
      BY <3>3 DEF Effect
  <2>3. CASE ~Holds(c)
    <3>1. Idle
      BY <1>19, <2>1, <2>3 DEF Renew, FencedPut, document, Idle
    <3>. QED
      BY <3>1 DEF Effect
  <2>. QED
    BY <2>2, <2>3
<1>20. ASSUME NEW c \in Claims, Lapse(c) PROVE Effect
  <2>1. Idle
    BY <1>20, <1>t DEF api, document, history, Lapse, Idle, SameRuns, Inserted
  <2>. QED
    BY <2>1 DEF Effect
<1>21. ASSUME NEW c \in Claims, CommitLate(c) PROVE Effect
  <2>1. /\ c \in commit /\ commit' = commit \ {c} /\ UNCHANGED <<enabling, due>>
        /\ \/ /\ schedule' = [schedule EXCEPT !.next = planned[c]]
              /\ run' = [run EXCEPT ![c] = "running"]
           \/ UNCHANGED <<schedule, run>>
    BY <1>21 DEF CommitLate, history
  <2>2. commit = {c} /\ commit' = {} /\ Holds(c) /\ schedule.state = "enabled"
    BY <2>1 DEF DocumentInv, CommitHolds
  <2>3. Closed \/ Advanced(c)
    BY <1>t, <2>1, <2>2, RunInserted DEF Closed, Advanced, SameRuns, Inserted
  <2>. QED
    BY <2>3 DEF Effect
<1>22. ASSUME NEW c \in Claims, ReapRun(c) PROVE Effect
  <2>1. Idle
    BY <1>22, <1>t DEF api, document, task, history, ReapRun, Idle, SameRuns, Inserted
  <2>. QED
    BY <2>1 DEF Effect
<1>23. CASE Tick
  <2>1. Idle
    BY <1>23, <1>t DEF api, document, task, history, Tick, Idle, SameRuns, Inserted
  <2>. QED
    BY <2>1 DEF Effect
<1>24. CASE BeginEnable
  <2>1. /\ schedule.state = "disabled" /\ enabling' = NextFire(schedule.cron)
        /\ UNCHANGED <<schedule, commit, run, due>>
    BY <1>24 DEF BeginEnable, Elsewhere, task
  <2>2. enabling' > clock /\ enabling' \in Nat
    BY <2>1, NextFireIsLater, DocumentFields DEF TypeOK
  <2>3. Began
    BY <2>1, <2>2 DEF Began, SameRuns, Inserted
  <2>. QED
    BY <2>3 DEF Effect
<1>25. CASE CommitEnable
  <2>1. Enabled
    BY <1>25, <1>t DEF api, task, Elsewhere, Put, CommitEnable, Enabled, SameRuns, Inserted
  <2>. QED
    BY <2>1 DEF Effect
<1>26. CASE DisableSchedule
  <2>1. Cleared
    BY <1>26, <1>t DEF Call, task, Elsewhere, Put, Withdraw, DisableSchedule, Cleared,
       SameRuns, Inserted
  <2>. QED
    BY <2>1 DEF Effect
<1>27. CASE DeleteSchedule
  <2>1. Cleared
    BY <1>27, <1>t DEF Call, task, Elsewhere, Put, Withdraw, DeleteSchedule, Cleared,
       SameRuns, Inserted
  <2>. QED
    BY <2>1 DEF Effect
<1>28. CASE DisableWorkflow
  <2>1. Idle \/ Cleared
    BY <1>28, <1>t DEF Call, task, Elsewhere, document, Put, Withdraw, Cascade,
       DisableWorkflow, Idle, Cleared, SameRuns, Inserted
  <2>. QED
    BY <2>1 DEF Effect
<1>29. CASE EnableWorkflow
  <2>1. Idle
    BY <1>29, <1>t DEF document, Call, task, Elsewhere, EnableWorkflow, Idle, SameRuns,
       Inserted
  <2>. QED
    BY <2>1 DEF Effect
<1>30. CASE DeleteRuns
  <2>1. Idle
    BY <1>30, <1>t DEF document, task, history, Call, DeleteRuns, Idle, SameRuns, Inserted
  <2>. QED
    BY <2>1 DEF Effect
<1>31. CASE DeleteSchedules
  <2>1. Idle \/ Cleared
    BY <1>31, <1>t DEF document, task, Elsewhere, Put, Withdraw, DeleteSchedules, Idle,
       Cleared, SameRuns, Inserted
  <2>. QED
    BY <2>1 DEF Effect
<1>32. CASE DeleteDefinition
  <2>1. Idle
    BY <1>32, <1>t DEF document, task, Elsewhere, DeleteDefinition, Idle, SameRuns, Inserted
  <2>. QED
    BY <2>1 DEF Effect
<1>33. ASSUME NEW cron \in Crons, ChangeCron(cron) PROVE Effect
  <2>. DEFINE n == IF schedule.state = "enabled" THEN NextFire(cron) ELSE schedule.next
  <2>1. /\ commit = {} /\ enabling' = None
        /\ schedule' = [schedule EXCEPT !.cron = cron, !.next = n]
        /\ UNCHANGED <<commit, run, due>>
    BY <1>33 DEF ChangeCron, Elsewhere, Put, task
  <2>2. /\ NextFire(cron) \in Nat /\ NextFire(cron) > clock
        /\ schedule.next \in Nat
    BY NextFireIsLater, DocumentFields DEF TypeOK
  <2>3. n \in Nat /\ IF schedule.state = "enabled" THEN n > clock ELSE n = schedule.next
    BY <2>2
  <2>. HIDE DEF n
  <2>4. Edited
    BY <2>1, <2>3 DEF Edited, SameRuns, Inserted
  <2>. QED
    BY <2>4 DEF Effect
<1>34. CASE UNCHANGED vars
  <2>1. Idle
    BY <1>34, <1>t DEF vars, api, document, task, history, Idle, SameRuns, Inserted
  <2>. QED
    BY <2>1 DEF Effect
<1>. QED
  BY <1>1, <1>2, <1>3, <1>4, <1>5, <1>6, <1>7, <1>8, <1>9, <1>10, <1>11, <1>12, <1>13,
     <1>14, <1>15, <1>16, <1>17, <1>18, <1>19, <1>20, <1>21, <1>22, <1>23, <1>24, <1>25,
     <1>26, <1>27, <1>28, <1>29, <1>30, <1>31, <1>32, <1>33, <1>34 DEF Next, TaskStep,
     Drained, ApiStep

(* Every effect keeps the fields of the document in agreement.             *)
LEMMA DocumentFromEffect ==
  TypeOK /\ DocumentInv /\ TaskInv /\ Effect => DocumentInv'
<1> SUFFICES ASSUME TypeOK, DocumentInv, TaskInv, Effect PROVE DocumentInv'
  OBVIOUS
<1>t. /\ schedule \in Documents /\ minted \in Nat /\ clock \in Nat /\ clock + Lease \in Nat
      /\ clock + Lease # 0 /\ clock > 0 /\ commit \subseteq Claims /\ enabling \in Nat
  BY BoundsAssumption DEF TypeOK
<1>s. schedule.next \in Nat /\ schedule.token \in Nat /\ schedule.locked \in Nat
  BY <1>t, DocumentFields
<1>i. StateFieldsAgree /\ EnablingDisabled /\ CommitHolds
  BY DEF DocumentInv
<1>1. CASE Idle
  BY <1>1, <1>i DEF Idle, DocumentInv, StateFieldsAgree, EnablingDisabled, CommitHolds,
     Holds
<1>2. CASE Cleared
  BY <1>2, <1>i DEF Cleared, Disabled, Deleted, Unlocked, Unclaimed, None, DocumentInv,
     StateFieldsAgree,
     EnablingDisabled, CommitHolds
<1>3. CASE Renewed
  <2>1. /\ schedule'.state = schedule.state /\ schedule'.next = schedule.next
        /\ schedule'.token = schedule.token /\ schedule'.locked = clock + Lease
        /\ schedule.token # None /\ enabling' = None /\ commit' = {}
    BY <1>3, <1>t DEF Renewed, LockFromNow, Documents
  <2>. QED
    BY <1>i, <1>t, <2>1 DEF DocumentInv, StateFieldsAgree, EnablingDisabled, CommitHolds,
       None
<1>4. CASE Claimed
  <2>1. /\ schedule'.state = schedule.state /\ schedule'.next = schedule.next
        /\ schedule'.token = minted + 1 /\ schedule'.locked = clock + Lease
        /\ schedule.state = "enabled" /\ enabling' = None /\ commit' = {}
    BY <1>4, <1>t DEF Claimed, Claimable, LockFromNow, Documents
  <2>. QED
    BY <1>i, <1>t, <2>1 DEF DocumentInv, StateFieldsAgree, EnablingDisabled, CommitHolds,
       None
<1>5. ASSUME NEW c \in Claims, Advanced(c) PROVE DocumentInv'
  <2>1. planned[c] \in Nat /\ due[c] \in Nat /\ planned[c] > due[c]
    BY <1>5 DEF Advanced, TypeOK, TaskInv, PlannedLater
  <2>2. /\ schedule'.state = schedule.state /\ schedule'.next = planned[c]
        /\ schedule'.token = schedule.token /\ schedule'.locked = schedule.locked
        /\ schedule.state = "enabled" /\ commit' = {}
        /\ enabling' = None \/ enabling' = enabling
    BY <1>5, <1>t DEF Advanced, Documents
  <2>. QED
    BY <1>i, <2>1, <2>2 DEF DocumentInv, StateFieldsAgree, EnablingDisabled, CommitHolds,
       None
<1>6. ASSUME NEW c \in Claims, Opened(c) PROVE DocumentInv'
  BY <1>6, <1>i DEF Opened, Advances, Holds, DocumentInv, StateFieldsAgree,
     EnablingDisabled, CommitHolds
<1>7. CASE Closed
  BY <1>7, <1>i DEF Closed, Holds, DocumentInv, StateFieldsAgree, EnablingDisabled,
     CommitHolds
<1>8. CASE Began
  BY <1>8, <1>i DEF Began, Holds, DocumentInv, StateFieldsAgree, EnablingDisabled,
     CommitHolds
<1>9. CASE Enabled
  BY <1>9, <1>i DEF Enabled, Unclaimed, None, DocumentInv, StateFieldsAgree,
     EnablingDisabled, CommitHolds
<1>10. CASE Edited
  <2>1. PICK cron \in Crons, n \in Nat :
          /\ schedule' = [schedule EXCEPT !.cron = cron, !.next = n]
          /\ IF schedule.state = "enabled" THEN n > clock ELSE n = schedule.next
    BY <1>10 DEF Edited
  <2>2. /\ schedule'.state = schedule.state /\ schedule'.next = n
        /\ schedule'.token = schedule.token /\ schedule'.locked = schedule.locked
    BY <1>t, <2>1 DEF Documents
  <2>3. n # 0 <=> schedule.state = "enabled"
    BY <1>i, <1>t, <2>1 DEF StateFieldsAgree, None
  <2>4. commit' = {} /\ enabling' = None
    BY <1>10 DEF Edited
  <2>. QED
    BY <1>i, <2>2, <2>3, <2>4 DEF DocumentInv, StateFieldsAgree, EnablingDisabled,
       CommitHolds, None
<1>. QED
  BY <1>1, <1>2, <1>3, <1>4, <1>5, <1>6, <1>7, <1>8, <1>9, <1>10 DEF Effect

(* Every effect keeps occurrences apart.                                   *)
LEMMA OccurrenceFromEffect ==
  IInv /\ Effect => OccurrenceInv'
<1> SUFFICES ASSUME IInv, Effect PROVE OccurrenceInv'
  OBVIOUS
<1>t. /\ schedule \in Documents /\ minted \in Nat /\ clock \in Nat /\ enabling \in Nat
      /\ due \in [Claims -> Nat] /\ planned \in [Claims -> Nat] /\ MaxClaims \in Nat
  BY BoundsAssumption DEF IInv, TypeOK
<1>s. schedule.next \in Nat /\ schedule.token \in 0..MaxClaims
  BY <1>t, DocumentFields
<1>d. Inserted \subseteq Claims /\ \A d \in Inserted : due[d] \in Nat /\ due[d] <= clock
  BY <1>t DEF IInv, TaskInv, DuePast, Inserted
<1>n. \A c \in Claims : c # None
  BY <1>t DEF Claims, None
<1>i. NextLater /\ HolderLatest /\ OneRunPerOccurrence
  BY DEF IInv, OccurrenceInv
<1>o. OneRunPerOccurrence <=> \A c, d \in Inserted : c # d => due[c] # due[d]
  BY DEF OneRunPerOccurrence, Inserted
<1>p. OneRunPerOccurrence' <=> \A c, d \in Inserted' : c # d => due'[c] # due'[d]
  BY DEF OneRunPerOccurrence, Inserted
<1>e. SameRuns => OneRunPerOccurrence'
  BY <1>i, <1>o, <1>p DEF SameRuns
<1>1. CASE Idle
  BY <1>1, <1>i, <1>e DEF Idle, SameRuns, OccurrenceInv, NextLater, HolderLatest, Holds
<1>2. CASE Cleared
  <2>1. /\ schedule'.token = None /\ enabling' = None /\ SameRuns
        /\ schedule'.next = None \/ schedule'.next = schedule.next
    BY <1>2 DEF Cleared, Disabled, Deleted, Unlocked, Unclaimed
  <2>2. HolderLatest'
    BY <2>1, <1>n DEF HolderLatest, Holds
  <2>. QED
    BY <2>1, <2>2, <1>i, <1>e DEF SameRuns, OccurrenceInv, NextLater
<1>3. CASE Renewed
  <2>1. /\ schedule'.next = schedule.next /\ schedule'.token = schedule.token
        /\ enabling' = None /\ SameRuns
    BY <1>3, <1>t DEF Renewed, Documents
  <2>. QED
    BY <2>1, <1>i, <1>e DEF SameRuns, OccurrenceInv, NextLater, HolderLatest, Holds
<1>4. CASE Claimed
  <2>. DEFINE e == minted + 1
  <2>1. /\ schedule'.next = schedule.next /\ schedule'.token = e
        /\ enabling' = None /\ e \in Claims /\ schedule.next # None
        /\ Inserted' = Inserted /\ due' = [due EXCEPT ![e] = schedule.next]
    BY <1>4, <1>t DEF Claimed, Claimable, Documents
  <2>2. run[e] = "none"
    BY <2>1, <1>t DEF IInv, TaskInv, Minted
  <2>. HIDE DEF e
  <2>3. e \notin Inserted
    BY <2>2 DEF Inserted
  <2>4. /\ due'[e] = schedule.next
        /\ \A d \in Inserted : due'[d] = due[d] /\ due[d] < schedule.next
    BY <1>d, <1>s, <1>t, <1>i, <2>1, <2>3 DEF NextLater
  <2>5. NextLater'
    BY <2>1, <2>4 DEF NextLater
  <2>6. HolderLatest'
    BY <2>1, <2>4 DEF HolderLatest, Holds
  <2>7. OneRunPerOccurrence'
    BY <1>i, <1>o, <1>p, <2>1, <2>4
  <2>. QED
    BY <2>5, <2>6, <2>7 DEF OccurrenceInv
<1>5. ASSUME NEW c \in Claims, Advanced(c) PROVE OccurrenceInv'
  <2>1. planned[c] > due[c]
    BY <1>5 DEF Advanced, IInv, TaskInv, PlannedLater
  <2>2. \A d \in Inserted \ {c} : due[d] < due[c]
    BY <1>5, <1>i DEF Advanced, HolderLatest
  <2>3. /\ schedule'.next = planned[c] /\ schedule'.token = c /\ schedule.state = "enabled"
        /\ Inserted' = Inserted \cup {c} /\ due' = due
        /\ enabling' = None \/ enabling' = enabling
    BY <1>5, <1>t DEF Advanced, Documents, Holds
  <2>4. enabling' = None
    BY <2>3 DEF IInv, DocumentInv, EnablingDisabled
  <2>5. NextLater'
    BY <1>t, <1>d, <2>1, <2>2, <2>3, <2>4 DEF NextLater
  <2>6. HolderLatest'
    BY <2>2, <2>3 DEF HolderLatest, Holds
  <2>7. OneRunPerOccurrence'
    BY <1>t, <1>d, <1>i, <1>o, <1>p, <2>2, <2>3
  <2>. QED
    BY <2>5, <2>6, <2>7 DEF OccurrenceInv
<1>6. ASSUME NEW c \in Claims, Opened(c) PROVE OccurrenceInv'
  BY <1>6, <1>i, <1>e DEF Opened, SameRuns, OccurrenceInv, NextLater, HolderLatest, Holds
<1>7. CASE Closed
  BY <1>7, <1>i, <1>e DEF Closed, SameRuns, OccurrenceInv, NextLater, HolderLatest, Holds
<1>8. CASE Began
  <2>1. \A d \in Inserted : enabling' > due[d]
    BY <1>8, <1>d, <1>t DEF Began
  <2>. QED
    BY <1>8, <2>1, <1>i, <1>e DEF Began, SameRuns, OccurrenceInv, NextLater,
       HolderLatest, Holds
<1>9. CASE Enabled
  <2>1. /\ schedule'.next = enabling /\ enabling # None /\ enabling' = None
        /\ schedule'.token = None /\ SameRuns
    BY <1>9 DEF Enabled, Unclaimed
  <2>2. HolderLatest'
    BY <2>1, <1>n DEF HolderLatest, Holds
  <2>. QED
    BY <2>1, <2>2, <1>i, <1>e DEF SameRuns, OccurrenceInv, NextLater
<1>10. CASE Edited
  <2>1. PICK cron \in Crons, n \in Nat :
          /\ schedule' = [schedule EXCEPT !.cron = cron, !.next = n]
          /\ IF schedule.state = "enabled" THEN n > clock ELSE n = schedule.next
    BY <1>10 DEF Edited
  <2>2. schedule'.next = n /\ schedule'.token = schedule.token /\ enabling' = None /\ SameRuns
    BY <1>10, <1>t, <2>1 DEF Documents, Edited
  <2>3. \A d \in Inserted : n = None \/ n > due[d]
    BY <1>d, <1>i, <1>t, <2>1 DEF NextLater
  <2>. QED
    BY <2>2, <2>3, <1>i, <1>e DEF SameRuns, OccurrenceInv, NextLater, HolderLatest, Holds
<1>. QED
  BY <1>1, <1>2, <1>3, <1>4, <1>5, <1>6, <1>7, <1>8, <1>9, <1>10 DEF Effect

(* Every step keeps the tasks' part of the invariant.                      *)
LEMMA TaskStepInv == TypeOK /\ TaskInv /\ [Next]_vars => TaskInv'
<1> SUFFICES ASSUME TypeOK, TaskInv, [Next]_vars PROVE TaskInv'
  OBVIOUS
<1>t. /\ pc \in [Claims -> TaskStates] /\ due \in [Claims -> Nat] /\ planned \in [Claims -> Nat]
      /\ commit \subseteq Claims /\ clock \in Nat /\ minted \in Nat /\ Claims \subseteq Nat
  BY BoundsAssumption DEF TypeOK, Claims
<1>r. run \in [Claims -> {"none", "running", "ended", "failed", "deleted"}]
  BY DEF TypeOK
<1>1. ASSUME NEW w \in Workers, ClaimDue(w) PROVE TaskInv'
  <2>0. schedule.next \in Nat /\ schedule.next <= clock
    BY <1>1, DocumentFields DEF ClaimDue, Claimable, TypeOK
  <2>c. minted + 1 \in Claims
    BY <1>1, <1>t, BoundsAssumption DEF ClaimDue, Claims
  <2>1. /\ minted' = minted + 1 /\ minted + 1 \in Claims /\ commit = {} /\ commit' = {}
        /\ schedule.next \in Nat /\ schedule.next <= clock /\ clock' = clock
        /\ due' = [due EXCEPT ![minted + 1] = schedule.next]
        /\ pc' = [pc EXCEPT ![minted + 1] = "queued"]
        /\ UNCHANGED <<planned, run>>
    BY <1>1, <2>0, <2>c DEF ClaimDue, Put, At
  <2>2. Settled' /\ PlannedLater'
    BY <1>t, <2>1 DEF TaskInv, Settled, PlannedLater
  <2>3. Minted'
    BY <1>t, <2>1 DEF TaskInv, Minted
  <2>4. DuePast'
    BY <1>t, <2>1 DEF TaskInv, DuePast
  <2>. QED
    BY <2>2, <2>3, <2>4 DEF TaskInv
<1>2. ASSUME NEW w \in Workers, Shutdown(w) PROVE TaskInv'
  <2>1. /\ \A c \in Claims : pc'[c] = pc[c] \/ (pc[c] = "queued" /\ pc'[c] = "releasing")
        /\ UNCHANGED <<clock, minted, planned, commit, run, due>>
    BY <1>2 DEF Shutdown, history, Tasks, Waiting
  <2>. QED
    BY <1>t, <2>1 DEF TaskInv, Settled, Minted, DuePast, PlannedLater
<1>3. ASSUME NEW w \in Workers, Restart(w) PROVE TaskInv'
  BY <1>3, <1>t, <1>r DEF api, document, task, history, Restart, TaskInv, Settled,
     Minted, DuePast, PlannedLater
<1>4. ASSUME NEW w \in Workers, Crash(w) PROVE TaskInv'
  <2>1. /\ \A c \in Claims : pc'[c] = pc[c] \/ (pc[c] \in Live /\ pc'[c] = "dead")
        /\ UNCHANGED <<clock, minted, planned, commit, run, due>>
    BY <1>4 DEF Crash, history, Tasks
  <2>2. "unborn" \notin Live
    BY DEF Live, Waiting, Inside
  <2>. QED
    BY <1>t, <2>1, <2>2 DEF TaskInv, Settled, Minted, DuePast, PlannedLater
<1>5. ASSUME NEW c \in Claims, Enter(c) PROVE TaskInv'
  BY <1>5, <1>t, <1>r DEF api, document, history, At, Enter, TaskInv, Settled, Minted,
     DuePast, PlannedLater
<1>6. ASSUME NEW c \in Claims, LoadClaim(c) PROVE TaskInv'
  BY <1>6, <1>t, <1>r DEF api, document, history, At, Leave, LoadClaim, TaskInv, Settled,
     Minted, DuePast, PlannedLater
<1>7. ASSUME NEW c \in Claims, ReadDefinition(c) PROVE TaskInv'
  <2>1. NextFire(loaded[c]) \in Nat /\ NextFire(loaded[c]) > clock
    BY NextFireIsLater DEF TypeOK
  <2>2. /\ pc[c] = "loaded" /\ UNCHANGED <<clock, minted, commit, run, due>>
        /\ \/ pc' = [pc EXCEPT ![c] = "inserting"]
              /\ planned' = [planned EXCEPT ![c] = NextFire(loaded[c])]
           \/ pc' = [pc EXCEPT ![c] = "disabling"] /\ UNCHANGED planned
    BY <1>7 DEF ReadDefinition, At, history
  <2>3. Settled' /\ Minted' /\ DuePast'
    BY <1>t, <1>r, <2>2 DEF TaskInv, Settled, Minted, DuePast
  <2>4. due[c] <= clock /\ c \notin commit
    BY <2>2 DEF TaskInv, DuePast, Settled
  <2>5. \A d \in Claims \ {c} : UNCHANGED <<pc[d], planned[d]>>
    BY <1>t, <2>2
  <2>6. pc'[c] = "inserting" => planned'[c] > due[c]
    BY <1>t, <2>1, <2>2, <2>4
  <2>7. PlannedLater'
    BY <2>2, <2>4, <2>5, <2>6 DEF TaskInv, PlannedLater
  <2>. QED
    BY <2>3, <2>7 DEF TaskInv
<1>8. ASSUME NEW c \in Claims, DisableClaim(c) PROVE TaskInv'
  BY <1>8, <1>t, <1>r DEF api, history, document, Put, FencedPut, At, Leave,
     DisableClaim, TaskInv, Settled, Minted, DuePast, PlannedLater
<1>9. ASSUME NEW c \in Claims, Insert(c) PROVE TaskInv'
  BY <1>9, <1>t, <1>r DEF api, document, history, At, Leave, Put, AdvanceAndInsertRun,
     Insert, TaskInv, Settled, Minted, DuePast, PlannedLater
<1>10. ASSUME NEW c \in Claims, RunReturns(c) PROVE TaskInv'
  BY <1>10, <1>t, <1>r DEF api, document, history, At, RunReturns, TaskInv, Settled,
     Minted, DuePast, PlannedLater
<1>11. ASSUME NEW c \in Claims, FinishClaim(c) PROVE TaskInv'
  BY <1>11, <1>t, <1>r DEF api, history, document, Put, FencedPut, At, Leave,
     FinishClaim, TaskInv, Settled, Minted, DuePast, PlannedLater
<1>12. ASSUME NEW c \in Claims, FailInserted(c) PROVE TaskInv'
  BY <1>12, <1>t, <1>r DEF api, document, history, At, FailInserted, TaskInv, Settled,
     Minted, DuePast, PlannedLater
<1>13. ASSUME NEW c \in Claims, ReleaseClaim(c) PROVE TaskInv'
  BY <1>13, <1>t, <1>r DEF api, history, document, Put, FencedPut, At, Leave,
     ReleaseClaim, TaskInv, Settled, Minted, DuePast, PlannedLater
<1>14. ASSUME NEW c \in Claims, Raise(c) PROVE TaskInv'
  BY <1>14, <1>t, <1>r DEF api, document, history, At, Leave, Raise, TaskInv, Settled,
     Minted, DuePast, PlannedLater
<1>15. ASSUME NEW c \in Claims, CancelPreparing(c) PROVE TaskInv'
  BY <1>15, <1>t, <1>r DEF api, document, history, Put, FencedPut, At, Cancel,
     CancelPreparing, TaskInv, Settled, Minted, DuePast, PlannedLater
<1>16. ASSUME NEW c \in Claims, CancelInsert(c) PROVE TaskInv'
  BY <1>16, <1>t, <1>r DEF api, document, history, At, Cancel, Put, AdvanceAndInsertRun,
     CancelInsert, TaskInv, Settled, Minted, DuePast, PlannedLater
<1>17. ASSUME NEW c \in Claims, CancelExecution(c) PROVE TaskInv'
  BY <1>17, <1>t, <1>r DEF api, document, history, At, Cancel, CancelExecution, TaskInv,
     Settled, Minted, DuePast, PlannedLater
<1>18. ASSUME NEW c \in Claims, CancelLastCall(c) PROVE TaskInv'
  BY <1>18, <1>t, <1>r DEF api, document, history, Put, FencedPut, At, Leave, Cancel,
     CancelLastCall, TaskInv, Settled, Minted, DuePast, PlannedLater
<1>19. ASSUME NEW c \in Claims, Renew(c) PROVE TaskInv'
  BY <1>19, <1>t, <1>r DEF api, history, document, Put, FencedPut, Renew, TaskInv,
     Settled, Minted, DuePast, PlannedLater
<1>20. ASSUME NEW c \in Claims, Lapse(c) PROVE TaskInv'
  BY <1>20, <1>t, <1>r DEF api, document, history, Lapse, TaskInv, Settled, Minted,
     DuePast, PlannedLater
<1>21. ASSUME NEW c \in Claims, CommitLate(c) PROVE TaskInv'
  BY <1>21, <1>t, <1>r DEF api, history, CommitLate, TaskInv, Settled, Minted, DuePast,
     PlannedLater
<1>22. ASSUME NEW c \in Claims, ReapRun(c) PROVE TaskInv'
  BY <1>22, <1>t, <1>r DEF api, document, task, history, ReapRun, TaskInv, Settled,
     Minted, DuePast, PlannedLater
<1>23. CASE Tick
  BY <1>23, <1>t, <1>r DEF api, document, task, history, Tick, TaskInv, Settled, Minted,
     DuePast, PlannedLater
<1>24. CASE BeginEnable
  BY <1>24, <1>t, <1>r DEF Call, task, Elsewhere, BeginEnable, TaskInv, Settled, Minted,
     DuePast, PlannedLater
<1>25. CASE CommitEnable
  BY <1>25, <1>t, <1>r DEF api, task, Elsewhere, Put, CommitEnable, TaskInv, Settled,
     Minted, DuePast, PlannedLater
<1>26. CASE DisableSchedule
  BY <1>26, <1>t, <1>r DEF Call, task, Elsewhere, Put, Withdraw, DisableSchedule,
     TaskInv, Settled, Minted, DuePast, PlannedLater
<1>27. CASE DeleteSchedule
  BY <1>27, <1>t, <1>r DEF Call, task, Elsewhere, Put, Withdraw, DeleteSchedule, TaskInv,
     Settled, Minted, DuePast, PlannedLater
<1>28. CASE DisableWorkflow
  BY <1>28, <1>t, <1>r DEF Call, task, Elsewhere, document, Put, Withdraw, Cascade,
     DisableWorkflow, TaskInv, Settled, Minted, DuePast, PlannedLater
<1>29. CASE EnableWorkflow
  BY <1>29, <1>t, <1>r DEF document, Call, task, Elsewhere, EnableWorkflow, TaskInv,
     Settled, Minted, DuePast, PlannedLater
<1>30. CASE DeleteRuns
  BY <1>30, <1>t, <1>r DEF document, task, history, Call, DeleteRuns, TaskInv, Settled,
     Minted, DuePast, PlannedLater
<1>31. CASE DeleteSchedules
  BY <1>31, <1>t, <1>r DEF document, task, Elsewhere, Put, Withdraw, DeleteSchedules,
     TaskInv, Settled, Minted, DuePast, PlannedLater
<1>32. CASE DeleteDefinition
  BY <1>32, <1>t, <1>r DEF document, task, Elsewhere, DeleteDefinition, TaskInv, Settled,
     Minted, DuePast, PlannedLater
<1>33. ASSUME NEW cron \in Crons, ChangeCron(cron) PROVE TaskInv'
  BY <1>33, <1>t, <1>r DEF Call, task, Elsewhere, Put, ChangeCron, TaskInv, Settled,
     Minted, DuePast, PlannedLater
<1>34. CASE UNCHANGED vars
  BY <1>34, <1>t, <1>r DEF vars, api, document, task, history, TaskInv, Settled, Minted,
     DuePast, PlannedLater
<1>. QED
  BY <1>1, <1>2, <1>3, <1>4, <1>5, <1>6, <1>7, <1>8, <1>9, <1>10, <1>11, <1>12, <1>13,
     <1>14, <1>15, <1>16, <1>17, <1>18, <1>19, <1>20, <1>21, <1>22, <1>23, <1>24, <1>25,
     <1>26, <1>27, <1>28, <1>29, <1>30, <1>31, <1>32, <1>33, <1>34 DEF Next, TaskStep,
     Drained, ApiStep

(* The initial states satisfy the invariant.                               *)
LEMMA InitInv == Init => IInv
<1> SUFFICES ASSUME Init PROVE IInv
  OBVIOUS
<1>1. TypeOK
  BY InitTypeOK
<1>2. Inserted = {} /\ commit = {} /\ enabling = None /\ clock = 1 /\ minted = 0
  BY DEF Init, Inserted
<1>3. PICK cron \in Crons : schedule = Unclaimed("disabled", cron, None)
  BY DEF Init
<1>4. DocumentInv
  BY <1>2, <1>3 DEF DocumentInv, StateFieldsAgree, EnablingDisabled, CommitHolds, Unclaimed
<1>5. TaskInv
  BY <1>2 DEF Init, TaskInv, Settled, Minted, DuePast, PlannedLater, None
<1>6. OccurrenceInv
  BY <1>2 DEF OccurrenceInv, NextLater, HolderLatest, OneRunPerOccurrence, Inserted
<1>. QED
  BY <1>1, <1>4, <1>5, <1>6 DEF IInv

(* The strengthening that is inductive: a holder's occurrence is later than *)
(* every occurrence that has a run, and so is whatever is written to       *)
(* next_run_at.                                                            *)
THEOREM Invariant == Spec => []IInv
<1>1. Init => IInv
  BY InitInv
<1>2. IInv /\ [Next]_vars => IInv'
  BY TypeStep, StepEffect, TaskStepInv, DocumentFromEffect, OccurrenceFromEffect DEF IInv
<1>. QED
  BY <1>1, <1>2, PTL DEF Spec

(* A disabled schedule keeps no claim and no next run, and an enabled one   *)
(* has a next run, whatever the API and the workers do to it.              *)
THEOREM StateFields == Spec => []StateFieldsAgree
<1>1. IInv => StateFieldsAgree
  BY DEF IInv, DocumentInv
<1>. QED
  BY <1>1, Invariant, PTL

(* No occurrence of a schedule is run twice, for any number of workers and *)
(* claims, whatever crashes, lapses, is cancelled or commits late.         *)
THEOREM OneRun == Spec => []OneRunPerOccurrence
<1>1. IInv => OneRunPerOccurrence
  BY DEF IInv, OccurrenceInv
<1>. QED
  BY <1>1, Invariant, PTL

-----------------------------------------------------------------------------
(* Whose claim it is, and where its task is: what a step does to one claim *)

LEMMA FieldsKept ==
  ASSUME NEW s \in Documents, NEW n, NEW x
  PROVE  /\ [s EXCEPT !.next = n].token = s.token /\ [s EXCEPT !.next = n].locked = s.locked
         /\ [s EXCEPT !.next = n].state = s.state
         /\ [s EXCEPT !.locked = n].token = s.token /\ [s EXCEPT !.locked = n].locked = n
         /\ [s EXCEPT !.locked = n].state = s.state
         /\ [s EXCEPT !.cron = x, !.next = n].token = s.token
         /\ [s EXCEPT !.cron = x, !.next = n].locked = s.locked
         /\ [s EXCEPT !.cron = x, !.next = n].state = s.state
         /\ [s EXCEPT !.token = x, !.locked = n].token = x
         /\ [s EXCEPT !.token = x, !.locked = n].locked = n
         /\ [s EXCEPT !.token = x, !.locked = n].state = s.state
BY DEF Documents

LEMMA HolderEnabled ==
  ASSUME TypeOK, DocumentInv, NEW c \in Claims, Holds(c)
  PROVE  schedule.state = "enabled" /\ schedule.token # None /\ c # None /\ enabling = None
BY BoundsAssumption DEF DocumentInv, StateFieldsAgree, EnablingDisabled, Holds, Claims, None

(* A claim is kept, with its lock unless its heartbeat moved it, or new.   *)
KeepsClaim(c) ==
  \/ (\E w \in Workers : ClaimDue(w)) /\ c = minted + 1
  \/ Holds(c) /\ (schedule'.locked = schedule.locked \/ Renew(c))

LEMMA HoldsStep ==
  ASSUME TypeOK, DocumentInv, [Next]_vars, NEW c \in Claims, Holds(c)'
  PROVE  KeepsClaim(c)
<1>h. schedule'.token = c /\ c # None /\ schedule \in Documents
  BY BoundsAssumption DEF Holds, Claims, None, TypeOK
<1>n. ASSUME schedule' \in {Disabled(schedule), Deleted(schedule), Unlocked(schedule)}
      PROVE  KeepsClaim(c)
  BY <1>h, <1>n DEF Disabled, Deleted, Unlocked, Unclaimed
<1>a. ASSUME UNCHANGED schedule PROVE KeepsClaim(c)
  BY <1>h, <1>a DEF KeepsClaim, Holds
<1>k. ASSUME schedule'.token = schedule.token, schedule'.locked = schedule.locked PROVE KeepsClaim(c)
  BY <1>h, <1>k DEF KeepsClaim, Holds
<1>b. ASSUME NEW n, schedule' = [schedule EXCEPT !.next = n] PROVE KeepsClaim(c)
  BY <1>h, <1>b, <1>k, FieldsKept
<1>d. ASSUME NEW n, NEW x, schedule' = [schedule EXCEPT !.cron = x, !.next = n] PROVE KeepsClaim(c)
  BY <1>h, <1>d, <1>k, FieldsKept
<1>1. ASSUME NEW w \in Workers, ClaimDue(w) PROVE KeepsClaim(c)
  <2>1. schedule' = [schedule EXCEPT !.token = minted + 1, !.locked = LockFromNow]
    BY <1>1 DEF ClaimDue, Put
  <2> QED BY <1>h, <1>1, <2>1, FieldsKept DEF KeepsClaim
<1>2. ASSUME NEW w \in Workers, Shutdown(w) PROVE KeepsClaim(c)
  BY <1>2, <1>a
  DEF Shutdown, Elsewhere, task, api, document, history
<1>3. ASSUME NEW w \in Workers, Restart(w) PROVE KeepsClaim(c)
  BY <1>3, <1>a
  DEF Restart, Elsewhere, task, api, document, history
<1>4. ASSUME NEW w \in Workers, Crash(w) PROVE KeepsClaim(c)
  BY <1>4, <1>a
  DEF Crash, Elsewhere, task, api, document, history
<1>5. ASSUME NEW d \in Claims, Enter(d) PROVE KeepsClaim(c)
  BY <1>5, <1>a
  DEF Enter, Elsewhere, task, api, document, history
<1>6. ASSUME NEW d \in Claims, LoadClaim(d) PROVE KeepsClaim(c)
  BY <1>6, <1>a
  DEF LoadClaim, Elsewhere, task, api, document, history
<1>7. ASSUME NEW d \in Claims, ReadDefinition(d) PROVE KeepsClaim(c)
  BY <1>7, <1>a
  DEF ReadDefinition, Elsewhere, task, api, document, history
<1>8. ASSUME NEW d \in Claims, DisableClaim(d) PROVE KeepsClaim(c)
  BY <1>a, <1>n, <1>8 DEF DisableClaim, Cascade, FencedPut, Put, document
<1>9. ASSUME NEW d \in Claims, Insert(d) PROVE KeepsClaim(c)
  BY <1>a, <1>b, <1>9 DEF Insert, AdvanceAndInsertRun, Put, document
<1>10. ASSUME NEW d \in Claims, RunReturns(d) PROVE KeepsClaim(c)
  BY <1>10, <1>a
  DEF RunReturns, Elsewhere, task, api, document, history
<1>11. ASSUME NEW d \in Claims, FinishClaim(d) PROVE KeepsClaim(c)
  BY <1>a, <1>n, <1>11 DEF FinishClaim, Cascade, FencedPut, Put, document
<1>12. ASSUME NEW d \in Claims, FailInserted(d) PROVE KeepsClaim(c)
  BY <1>12, <1>a
  DEF FailInserted, Elsewhere, task, api, document, history
<1>13. ASSUME NEW d \in Claims, ReleaseClaim(d) PROVE KeepsClaim(c)
  BY <1>a, <1>n, <1>13 DEF ReleaseClaim, Cascade, FencedPut, Put, document
<1>14. ASSUME NEW d \in Claims, Raise(d) PROVE KeepsClaim(c)
  BY <1>14, <1>a
  DEF Raise, Elsewhere, task, api, document, history
<1>15. ASSUME NEW d \in Claims, CancelPreparing(d) PROVE KeepsClaim(c)
  BY <1>a, <1>n, <1>15 DEF CancelPreparing, Cascade, FencedPut, Put, document
<1>16. ASSUME NEW d \in Claims, CancelInsert(d) PROVE KeepsClaim(c)
  BY <1>a, <1>b, <1>16 DEF CancelInsert, AdvanceAndInsertRun, Put, document
<1>17. ASSUME NEW d \in Claims, CancelExecution(d) PROVE KeepsClaim(c)
  BY <1>17, <1>a
  DEF CancelExecution, Elsewhere, task, api, document, history
<1>18. ASSUME NEW d \in Claims, CancelLastCall(d) PROVE KeepsClaim(c)
  BY <1>a, <1>n, <1>18 DEF CancelLastCall, Cascade, FencedPut, Put, document
<1>19. ASSUME NEW d \in Claims, Renew(d) PROVE KeepsClaim(c)
  <2>1. CASE Holds(d)
    <3>1. schedule' = [schedule EXCEPT !.locked = LockFromNow]
      BY <1>19, <2>1 DEF Renew, FencedPut, Put
    <3>2. schedule'.token = schedule.token
      BY <1>h, <3>1, FieldsKept
    <3> QED BY <1>h, <1>19, <2>1, <3>2 DEF KeepsClaim, Holds
  <2>2. CASE ~Holds(d)
    BY <1>a, <1>19, <2>2 DEF Renew, FencedPut, document
  <2> QED BY <2>1, <2>2
<1>20. ASSUME NEW d \in Claims, Lapse(d) PROVE KeepsClaim(c)
  BY <1>20, <1>a
  DEF Lapse, Elsewhere, task, api, document, history
<1>21. ASSUME NEW d \in Claims, CommitLate(d) PROVE KeepsClaim(c)
  BY <1>a, <1>b, <1>21 DEF CommitLate
<1>22. ASSUME NEW d \in Claims, ReapRun(d) PROVE KeepsClaim(c)
  BY <1>22, <1>a
  DEF ReapRun, Elsewhere, task, api, document, history
<1>23. CASE Tick
  BY <1>23, <1>a
  DEF Tick, Elsewhere, task, api, document, history
<1>24. CASE BeginEnable
  BY <1>24, <1>a
  DEF BeginEnable, Elsewhere, task, api, document, history
<1>25. CASE CommitEnable
  BY <1>h, <1>25 DEF CommitEnable, Put, Unclaimed
<1>26. CASE DisableSchedule
  BY <1>a, <1>n, <1>26 DEF DisableSchedule, Cascade, FencedPut, Put, document
<1>27. CASE DeleteSchedule
  BY <1>a, <1>n, <1>27 DEF DeleteSchedule, Cascade, FencedPut, Put, document
<1>28. CASE DisableWorkflow
  BY <1>a, <1>n, <1>28 DEF DisableWorkflow, Cascade, FencedPut, Put, document
<1>29. CASE EnableWorkflow
  BY <1>29, <1>a
  DEF EnableWorkflow, Elsewhere, task, api, document, history
<1>30. CASE DeleteRuns
  BY <1>30, <1>a
  DEF DeleteRuns, Elsewhere, task, api, document, history
<1>31. CASE DeleteSchedules
  BY <1>a, <1>n, <1>31 DEF DeleteSchedules, Cascade, FencedPut, Put, document
<1>32. CASE DeleteDefinition
  BY <1>32, <1>a
  DEF DeleteDefinition, Elsewhere, task, api, document, history
<1>33. ASSUME NEW cron \in Crons, ChangeCron(cron) PROVE KeepsClaim(c)
  <2> DEFINE n == IF schedule.state = "enabled" THEN NextFire(cron) ELSE schedule.next
  <2>1. schedule' = [schedule EXCEPT !.cron = cron, !.next = n]
    BY <1>33 DEF ChangeCron, Put
  <2> HIDE DEF n
  <2> QED BY <1>d, <2>1
<1>34. CASE UNCHANGED vars
  BY <1>34, <1>a
  DEF vars, Elsewhere, task, api, document, history
<1> QED BY <1>1, <1>2, <1>3, <1>4, <1>5, <1>6, <1>7, <1>8, <1>9, <1>10, <1>11, <1>12,
    <1>13, <1>14, <1>15, <1>16, <1>17, <1>18, <1>19, <1>20, <1>21, <1>22, <1>23, <1>24,
    <1>25, <1>26, <1>27, <1>28, <1>29, <1>30, <1>31, <1>32, <1>33, <1>34
  DEF Next, TaskStep, Drained, ApiStep

(* A claim is lost to a call of the API, to another worker, or let go.     *)
Withdrawn(c) == c \in withdrawn' /\ UNCHANGED <<pc, run, minted, clock, beat>>
LetsGo(c) ==
  \/ Withdrawn(c)
  \/ \E w \in Workers : ClaimDue(w)
  \/ pc[c] \in {"disabling", "finishing", "recording", "releasing"}

LEMMA LosesStep ==
  ASSUME TypeOK, DocumentInv, [Next]_vars, NEW c \in Claims, Holds(c), ~Holds(c)'
  PROVE  LetsGo(c)
<1>h. schedule.token = c /\ c # None /\ schedule \in Documents /\ schedule'.token # schedule.token
  BY BoundsAssumption DEF Holds, Claims, None, TypeOK
<1>e. schedule.state = "enabled" /\ enabling = None
  BY HolderEnabled
<1>a. ~ UNCHANGED schedule
  BY <1>h
<1>b. ASSUME NEW n, schedule' = [schedule EXCEPT !.next = n] PROVE FALSE
  BY <1>h, <1>b, FieldsKept
<1>l. ASSUME NEW n, schedule' = [schedule EXCEPT !.locked = n] PROVE FALSE
  BY <1>h, <1>l, FieldsKept
<1>d. ASSUME NEW n, NEW x, schedule' = [schedule EXCEPT !.cron = x, !.next = n] PROVE FALSE
  BY <1>h, <1>d, FieldsKept
<1>1. ASSUME NEW w \in Workers, ClaimDue(w) PROVE LetsGo(c)
  BY <1>1 DEF LetsGo
<1>2. ASSUME NEW w \in Workers, Shutdown(w) PROVE LetsGo(c)
  BY <1>2, <1>a
  DEF Shutdown, Elsewhere, task, api, document, history
<1>3. ASSUME NEW w \in Workers, Restart(w) PROVE LetsGo(c)
  BY <1>3, <1>a
  DEF Restart, Elsewhere, task, api, document, history
<1>4. ASSUME NEW w \in Workers, Crash(w) PROVE LetsGo(c)
  BY <1>4, <1>a
  DEF Crash, Elsewhere, task, api, document, history
<1>5. ASSUME NEW d \in Claims, Enter(d) PROVE LetsGo(c)
  BY <1>5, <1>a
  DEF Enter, Elsewhere, task, api, document, history
<1>6. ASSUME NEW d \in Claims, LoadClaim(d) PROVE LetsGo(c)
  BY <1>6, <1>a
  DEF LoadClaim, Elsewhere, task, api, document, history
<1>7. ASSUME NEW d \in Claims, ReadDefinition(d) PROVE LetsGo(c)
  BY <1>7, <1>a
  DEF ReadDefinition, Elsewhere, task, api, document, history
<1>8. ASSUME NEW d \in Claims, DisableClaim(d) PROVE LetsGo(c)
  BY <1>h, <1>a, <1>8 DEF DisableClaim, FencedPut, document, Holds, LetsGo
<1>9. ASSUME NEW d \in Claims, Insert(d) PROVE LetsGo(c)
  BY <1>a, <1>b, <1>9 DEF Insert, AdvanceAndInsertRun, Put, document
<1>10. ASSUME NEW d \in Claims, RunReturns(d) PROVE LetsGo(c)
  BY <1>10, <1>a
  DEF RunReturns, Elsewhere, task, api, document, history
<1>11. ASSUME NEW d \in Claims, FinishClaim(d) PROVE LetsGo(c)
  BY <1>h, <1>a, <1>11 DEF FinishClaim, FencedPut, document, Holds, LetsGo
<1>12. ASSUME NEW d \in Claims, FailInserted(d) PROVE LetsGo(c)
  BY <1>12, <1>a
  DEF FailInserted, Elsewhere, task, api, document, history
<1>13. ASSUME NEW d \in Claims, ReleaseClaim(d) PROVE LetsGo(c)
  BY <1>h, <1>a, <1>13 DEF ReleaseClaim, FencedPut, document, Holds, LetsGo
<1>14. ASSUME NEW d \in Claims, Raise(d) PROVE LetsGo(c)
  BY <1>14, <1>a
  DEF Raise, Elsewhere, task, api, document, history
<1>15. ASSUME NEW d \in Claims, CancelPreparing(d) PROVE LetsGo(c)
  BY <1>h, <1>a, <1>15 DEF CancelPreparing, FencedPut, document, Holds, LetsGo
<1>16. ASSUME NEW d \in Claims, CancelInsert(d) PROVE LetsGo(c)
  BY <1>a, <1>b, <1>16 DEF CancelInsert, AdvanceAndInsertRun, Put, document
<1>17. ASSUME NEW d \in Claims, CancelExecution(d) PROVE LetsGo(c)
  BY <1>17, <1>a
  DEF CancelExecution, Elsewhere, task, api, document, history
<1>18. ASSUME NEW d \in Claims, CancelLastCall(d) PROVE LetsGo(c)
  BY <1>h, <1>a, <1>18 DEF CancelLastCall, FencedPut, document, Holds, LetsGo
<1>19. ASSUME NEW d \in Claims, Renew(d) PROVE LetsGo(c)
  BY <1>a, <1>l, <1>19 DEF Renew, FencedPut, Put, document
<1>20. ASSUME NEW d \in Claims, Lapse(d) PROVE LetsGo(c)
  BY <1>20, <1>a
  DEF Lapse, Elsewhere, task, api, document, history
<1>21. ASSUME NEW d \in Claims, CommitLate(d) PROVE LetsGo(c)
  BY <1>a, <1>b, <1>21 DEF CommitLate
<1>22. ASSUME NEW d \in Claims, ReapRun(d) PROVE LetsGo(c)
  BY <1>22, <1>a
  DEF ReapRun, Elsewhere, task, api, document, history
<1>23. CASE Tick
  BY <1>23, <1>a
  DEF Tick, Elsewhere, task, api, document, history
<1>24. CASE BeginEnable
  BY <1>24, <1>a
  DEF BeginEnable, Elsewhere, task, api, document, history
<1>25. CASE CommitEnable
  BY <1>e, <1>25 DEF CommitEnable
<1>26. CASE DisableSchedule
  BY <1>h, <1>a, <1>26 DEF DisableSchedule, Cascade, Withdraw, document, Elsewhere, task, LetsGo, Withdrawn
<1>27. CASE DeleteSchedule
  BY <1>h, <1>a, <1>27 DEF DeleteSchedule, Cascade, Withdraw, document, Elsewhere, task, LetsGo, Withdrawn
<1>28. CASE DisableWorkflow
  BY <1>h, <1>a, <1>28 DEF DisableWorkflow, Cascade, Withdraw, document, Elsewhere, task, LetsGo, Withdrawn
<1>29. CASE EnableWorkflow
  BY <1>29, <1>a
  DEF EnableWorkflow, Elsewhere, task, api, document, history
<1>30. CASE DeleteRuns
  BY <1>30, <1>a
  DEF DeleteRuns, Elsewhere, task, api, document, history
<1>31. CASE DeleteSchedules
  BY <1>h, <1>a, <1>31 DEF DeleteSchedules, Cascade, Withdraw, document, Elsewhere, task, LetsGo, Withdrawn
<1>32. CASE DeleteDefinition
  BY <1>32, <1>a
  DEF DeleteDefinition, Elsewhere, task, api, document, history
<1>33. ASSUME NEW cron \in Crons, ChangeCron(cron) PROVE LetsGo(c)
  <2> DEFINE n == IF schedule.state = "enabled" THEN NextFire(cron) ELSE schedule.next
  <2>1. schedule' = [schedule EXCEPT !.cron = cron, !.next = n]
    BY <1>33 DEF ChangeCron, Put
  <2> HIDE DEF n
  <2> QED BY <1>d, <2>1
<1>34. CASE UNCHANGED vars
  BY <1>34, <1>a
  DEF vars, Elsewhere, task, api, document, history
<1> QED BY <1>1, <1>2, <1>3, <1>4, <1>5, <1>6, <1>7, <1>8, <1>9, <1>10, <1>11, <1>12,
    <1>13, <1>14, <1>15, <1>16, <1>17, <1>18, <1>19, <1>20, <1>21, <1>22, <1>23, <1>24,
    <1>25, <1>26, <1>27, <1>28, <1>29, <1>30, <1>31, <1>32, <1>33, <1>34
  DEF Next, TaskStep, Drained, ApiStep

(* Tokens are numbered as they are minted: the document's is the last.     *)
LatestToken == schedule.token \in {None, minted}

(* Claims are counted by the scheduler loop only, and time by the clock.   *)
LEMMA CountersStep ==
  ASSUME [Next]_vars
  PROVE  /\ UNCHANGED minted \/ \E w \in Workers : ClaimDue(w)
         /\ UNCHANGED clock \/ Tick
<1> DEFINE Counters == /\ UNCHANGED minted \/ \E w \in Workers : ClaimDue(w)
                       /\ UNCHANGED clock \/ Tick
<1> SUFFICES Counters OBVIOUS
<1>1. ASSUME NEW w \in Workers, ClaimDue(w) PROVE Counters
  BY <1>1
  DEF ClaimDue, Elsewhere, task, api, history
<1>2. ASSUME NEW w \in Workers, Shutdown(w) PROVE Counters
  BY <1>2
  DEF Shutdown, Elsewhere, task, api, history
<1>3. ASSUME NEW w \in Workers, Restart(w) PROVE Counters
  BY <1>3
  DEF Restart, Elsewhere, task, api, history
<1>4. ASSUME NEW w \in Workers, Crash(w) PROVE Counters
  BY <1>4
  DEF Crash, Elsewhere, task, api, history
<1>5. ASSUME NEW d \in Claims, Enter(d) PROVE Counters
  BY <1>5
  DEF Enter, Elsewhere, task, api, history
<1>6. ASSUME NEW d \in Claims, LoadClaim(d) PROVE Counters
  BY <1>6
  DEF LoadClaim, Elsewhere, task, api, history
<1>7. ASSUME NEW d \in Claims, ReadDefinition(d) PROVE Counters
  BY <1>7
  DEF ReadDefinition, Elsewhere, task, api, history
<1>8. ASSUME NEW d \in Claims, DisableClaim(d) PROVE Counters
  BY <1>8
  DEF DisableClaim, Elsewhere, task, api, history
<1>9. ASSUME NEW d \in Claims, Insert(d) PROVE Counters
  BY <1>9
  DEF Insert, Elsewhere, task, api, history
<1>10. ASSUME NEW d \in Claims, RunReturns(d) PROVE Counters
  BY <1>10
  DEF RunReturns, Elsewhere, task, api, history
<1>11. ASSUME NEW d \in Claims, FinishClaim(d) PROVE Counters
  BY <1>11
  DEF FinishClaim, Elsewhere, task, api, history
<1>12. ASSUME NEW d \in Claims, FailInserted(d) PROVE Counters
  BY <1>12
  DEF FailInserted, Elsewhere, task, api, history
<1>13. ASSUME NEW d \in Claims, ReleaseClaim(d) PROVE Counters
  BY <1>13
  DEF ReleaseClaim, Elsewhere, task, api, history
<1>14. ASSUME NEW d \in Claims, Raise(d) PROVE Counters
  BY <1>14
  DEF Raise, Elsewhere, task, api, history
<1>15. ASSUME NEW d \in Claims, CancelPreparing(d) PROVE Counters
  BY <1>15
  DEF CancelPreparing, Elsewhere, task, api, history
<1>16. ASSUME NEW d \in Claims, CancelInsert(d) PROVE Counters
  BY <1>16
  DEF CancelInsert, Elsewhere, task, api, history
<1>17. ASSUME NEW d \in Claims, CancelExecution(d) PROVE Counters
  BY <1>17
  DEF CancelExecution, Elsewhere, task, api, history
<1>18. ASSUME NEW d \in Claims, CancelLastCall(d) PROVE Counters
  BY <1>18
  DEF CancelLastCall, Elsewhere, task, api, history
<1>19. ASSUME NEW d \in Claims, Renew(d) PROVE Counters
  BY <1>19
  DEF Renew, Elsewhere, task, api, history
<1>20. ASSUME NEW d \in Claims, Lapse(d) PROVE Counters
  BY <1>20
  DEF Lapse, Elsewhere, task, api, history
<1>21. ASSUME NEW d \in Claims, CommitLate(d) PROVE Counters
  BY <1>21
  DEF CommitLate, Elsewhere, task, api, history
<1>22. ASSUME NEW d \in Claims, ReapRun(d) PROVE Counters
  BY <1>22
  DEF ReapRun, Elsewhere, task, api, history
<1>23. CASE Tick
  BY <1>23
  DEF Tick, Elsewhere, task, api, history
<1>24. CASE BeginEnable
  BY <1>24
  DEF BeginEnable, Elsewhere, task, api, history
<1>25. CASE CommitEnable
  BY <1>25
  DEF CommitEnable, Elsewhere, task, api, history
<1>26. CASE DisableSchedule
  BY <1>26
  DEF DisableSchedule, Elsewhere, task, api, history
<1>27. CASE DeleteSchedule
  BY <1>27
  DEF DeleteSchedule, Elsewhere, task, api, history
<1>28. CASE DisableWorkflow
  BY <1>28
  DEF DisableWorkflow, Elsewhere, task, api, history
<1>29. CASE EnableWorkflow
  BY <1>29
  DEF EnableWorkflow, Elsewhere, task, api, history
<1>30. CASE DeleteRuns
  BY <1>30
  DEF DeleteRuns, Elsewhere, task, api, history
<1>31. CASE DeleteSchedules
  BY <1>31
  DEF DeleteSchedules, Elsewhere, task, api, history
<1>32. CASE DeleteDefinition
  BY <1>32
  DEF DeleteDefinition, Elsewhere, task, api, history
<1>33. ASSUME NEW cron \in Crons, ChangeCron(cron) PROVE Counters
  BY <1>33
  DEF ChangeCron, Elsewhere, task, api, history
<1>34. CASE UNCHANGED vars
  BY <1>34
  DEF vars, Elsewhere, task, api, document, history
<1> QED BY <1>1, <1>2, <1>3, <1>4, <1>5, <1>6, <1>7, <1>8, <1>9, <1>10, <1>11, <1>12,
    <1>13, <1>14, <1>15, <1>16, <1>17, <1>18, <1>19, <1>20, <1>21, <1>22, <1>23, <1>24,
    <1>25, <1>26, <1>27, <1>28, <1>29, <1>30, <1>31, <1>32, <1>33, <1>34
  DEF Next, TaskStep, Drained, ApiStep

LEMMA TokenStep ==
  ASSUME TypeOK, DocumentInv, LatestToken, [Next]_vars
  PROVE  LatestToken'
<1>1. CASE schedule'.token = None
  BY <1>1 DEF LatestToken
<1>2. CASE schedule'.token # None
  <2>1. PICK c \in Claims : schedule'.token = c
    <3>1. TypeOK' BY TypeStep
    <3>2. schedule'.token \in 0..MaxClaims BY <3>1 DEF TypeOK, Documents
    <3> QED BY <1>2, <3>2, BoundsAssumption DEF Claims, None
  <2>2. Holds(c)' BY <2>1 DEF Holds
  <2>3. KeepsClaim(c) BY <2>2, HoldsStep
  <2>4. CASE (\E w \in Workers : ClaimDue(w)) /\ c = minted + 1
    BY <2>1, <2>4 DEF ClaimDue, LatestToken
  <2>5. CASE Holds(c) /\ ~ \E w \in Workers : ClaimDue(w)
    BY <1>2, <2>1, <2>5, CountersStep DEF LatestToken, Holds
  <2>6. CASE Holds(c) /\ \E w \in Workers : ClaimDue(w)
    <3>1. PICK w \in Workers : ClaimDue(w) BY <2>6
    <3>2. schedule' = [schedule EXCEPT !.token = minted + 1, !.locked = LockFromNow] /\ minted' = minted + 1
      BY <3>1 DEF ClaimDue, Put
    <3>3. schedule'.token = minted + 1 BY <3>2, FieldsKept DEF TypeOK
    <3> QED BY <3>2, <3>3 DEF LatestToken
  <2> QED BY <2>3, <2>4, <2>5, <2>6 DEF KeepsClaim
<1> QED BY <1>1, <1>2

-----------------------------------------------------------------------------
(* Runs of one schedule do not overlap uninvited, as long as renewals are  *)
(* answered: the heartbeat of a live task and the lock in the document     *)
(* agree and are ahead of the clock, so nobody can claim over it.          *)

LEMMA LiveStates ==
  /\ {"queued", "entered", "loaded", "disabling", "inserting", "failing", "recording",
      "executing", "finishing", "releasing"} \subseteq Live
  /\ {"unborn", "done", "dead"} \cap Live = {}
BY DEF Live, Waiting, Inside

(* A task is alive because it was, or because it has just been claimed; its *)
(* heartbeat is moved by its own renewals and lapses only.                 *)
Lives(c) ==
  \/ (\E w \in Workers : ClaimDue(w)) /\ c = minted + 1
  \/ pc[c] \in Live /\ (beat'[c] = beat[c] \/ Renew(c) \/ Lapse(c))

LEMMA LivesStep ==
  ASSUME TypeOK, [Next]_vars, NEW c \in Claims, pc'[c] \in Live
  PROVE  Lives(c)
<1>l. /\ {"queued", "entered", "loaded", "disabling", "inserting", "failing", "recording",
          "executing", "finishing", "releasing"} \subseteq Live
      /\ "done" \notin Live /\ "dead" \notin Live
  BY LiveStates
<1>t. pc \in [Claims -> TaskStates] /\ beat \in [Claims -> Nat]
  BY DEF TypeOK
<1>s. pc[c] \in Live /\ beat'[c] = beat[c] => Lives(c)
  BY DEF Lives
<1>1. ASSUME NEW w \in Workers, ClaimDue(w) PROVE Lives(c)
  <2>1. /\ pc' = [pc EXCEPT ![minted + 1] = "queued"]
        /\ beat' = [beat EXCEPT ![minted + 1] = LockFromNow]
    BY <1>1 DEF ClaimDue, At
  <2> QED BY <1>1, <1>t, <1>l, <2>1 DEF Lives
<1>2. ASSUME NEW w \in Workers, Shutdown(w) PROVE Lives(c)
  BY <1>2, <1>t, <1>l, <1>s
  DEF Shutdown, Tasks, Waiting, Elsewhere, task, api, history
<1>3. ASSUME NEW w \in Workers, Restart(w) PROVE Lives(c)
  BY <1>3, <1>t, <1>l, <1>s
  DEF Restart, Elsewhere, task, api, history
<1>4. ASSUME NEW w \in Workers, Crash(w) PROVE Lives(c)
  BY <1>4, <1>t, <1>l, <1>s
  DEF Crash, Tasks, Elsewhere, task, api, history
<1>5. ASSUME NEW d \in Claims, Enter(d) PROVE Lives(c)
  BY <1>5, <1>t, <1>l, <1>s
  DEF Enter, At, Elsewhere, task, api, history
<1>6. ASSUME NEW d \in Claims, LoadClaim(d) PROVE Lives(c)
  BY <1>6, <1>t, <1>l, <1>s
  DEF LoadClaim, At, Leave, Elsewhere, task, api, history
<1>7. ASSUME NEW d \in Claims, ReadDefinition(d) PROVE Lives(c)
  BY <1>7, <1>t, <1>l, <1>s
  DEF ReadDefinition, At, Elsewhere, task, api, history
<1>8. ASSUME NEW d \in Claims, DisableClaim(d) PROVE Lives(c)
  BY <1>8, <1>t, <1>l, <1>s
  DEF DisableClaim, At, Leave, Elsewhere, task, api, history
<1>9. ASSUME NEW d \in Claims, Insert(d) PROVE Lives(c)
  BY <1>9, <1>t, <1>l, <1>s
  DEF Insert, At, Leave, Elsewhere, task, api, history
<1>10. ASSUME NEW d \in Claims, RunReturns(d) PROVE Lives(c)
  BY <1>10, <1>t, <1>l, <1>s
  DEF RunReturns, At, Elsewhere, task, api, history
<1>11. ASSUME NEW d \in Claims, FinishClaim(d) PROVE Lives(c)
  BY <1>11, <1>t, <1>l, <1>s
  DEF FinishClaim, At, Leave, Elsewhere, task, api, history
<1>12. ASSUME NEW d \in Claims, FailInserted(d) PROVE Lives(c)
  BY <1>12, <1>t, <1>l, <1>s
  DEF FailInserted, At, Elsewhere, task, api, history
<1>13. ASSUME NEW d \in Claims, ReleaseClaim(d) PROVE Lives(c)
  BY <1>13, <1>t, <1>l, <1>s
  DEF ReleaseClaim, At, Leave, Elsewhere, task, api, history
<1>14. ASSUME NEW d \in Claims, Raise(d) PROVE Lives(c)
  BY <1>14, <1>t, <1>l, <1>s
  DEF Raise, At, Leave, Elsewhere, task, api, history
<1>15. ASSUME NEW d \in Claims, CancelPreparing(d) PROVE Lives(c)
  BY <1>15, <1>t, <1>l, <1>s
  DEF CancelPreparing, At, Elsewhere, task, api, history
<1>16. ASSUME NEW d \in Claims, CancelInsert(d) PROVE Lives(c)
  BY <1>16, <1>t, <1>l, <1>s
  DEF CancelInsert, At, Elsewhere, task, api, history
<1>17. ASSUME NEW d \in Claims, CancelExecution(d) PROVE Lives(c)
  BY <1>17, <1>t, <1>l, <1>s
  DEF CancelExecution, At, Elsewhere, task, api, history
<1>18. ASSUME NEW d \in Claims, CancelLastCall(d) PROVE Lives(c)
  BY <1>18, <1>t, <1>l, <1>s
  DEF CancelLastCall, At, Leave, Elsewhere, task, api, history
<1>19. ASSUME NEW d \in Claims, Renew(d) PROVE Lives(c)
  <2>1. pc' = pc /\ \E n : beat' = [beat EXCEPT ![d] = n]
    BY <1>19 DEF Renew
  <2> QED BY <1>19, <1>t, <2>1 DEF Lives
<1>20. ASSUME NEW d \in Claims, Lapse(d) PROVE Lives(c)
  <2>1. pc' = pc /\ beat' = [beat EXCEPT ![d] = None]
    BY <1>20 DEF Lapse
  <2> QED BY <1>20, <1>t, <2>1 DEF Lives
<1>21. ASSUME NEW d \in Claims, CommitLate(d) PROVE Lives(c)
  BY <1>21, <1>t, <1>l, <1>s
  DEF CommitLate, Elsewhere, task, api, history
<1>22. ASSUME NEW d \in Claims, ReapRun(d) PROVE Lives(c)
  BY <1>22, <1>t, <1>l, <1>s
  DEF ReapRun, Elsewhere, task, api, history
<1>23. CASE Tick
  BY <1>23, <1>t, <1>l, <1>s
  DEF Tick, Elsewhere, task, api, history
<1>24. CASE BeginEnable
  BY <1>24, <1>t, <1>l, <1>s
  DEF BeginEnable, Elsewhere, task, api, history
<1>25. CASE CommitEnable
  BY <1>25, <1>t, <1>l, <1>s
  DEF CommitEnable, Elsewhere, task, api, history
<1>26. CASE DisableSchedule
  BY <1>26, <1>t, <1>l, <1>s
  DEF DisableSchedule, Elsewhere, task, api, history
<1>27. CASE DeleteSchedule
  BY <1>27, <1>t, <1>l, <1>s
  DEF DeleteSchedule, Elsewhere, task, api, history
<1>28. CASE DisableWorkflow
  BY <1>28, <1>t, <1>l, <1>s
  DEF DisableWorkflow, Elsewhere, task, api, history
<1>29. CASE EnableWorkflow
  BY <1>29, <1>t, <1>l, <1>s
  DEF EnableWorkflow, Elsewhere, task, api, history
<1>30. CASE DeleteRuns
  BY <1>30, <1>t, <1>l, <1>s
  DEF DeleteRuns, Elsewhere, task, api, history
<1>31. CASE DeleteSchedules
  BY <1>31, <1>t, <1>l, <1>s
  DEF DeleteSchedules, Elsewhere, task, api, history
<1>32. CASE DeleteDefinition
  BY <1>32, <1>t, <1>l, <1>s
  DEF DeleteDefinition, Elsewhere, task, api, history
<1>33. ASSUME NEW cron \in Crons, ChangeCron(cron) PROVE Lives(c)
  BY <1>33, <1>t, <1>l, <1>s
  DEF ChangeCron, Elsewhere, task, api, history
<1>34. CASE UNCHANGED vars
  BY <1>34, <1>t, <1>l, <1>s
  DEF vars, Elsewhere, task, api, document, history
<1> QED BY <1>1, <1>2, <1>3, <1>4, <1>5, <1>6, <1>7, <1>8, <1>9, <1>10, <1>11, <1>12,
    <1>13, <1>14, <1>15, <1>16, <1>17, <1>18, <1>19, <1>20, <1>21, <1>22, <1>23, <1>24,
    <1>25, <1>26, <1>27, <1>28, <1>29, <1>30, <1>31, <1>32, <1>33, <1>34
  DEF Next, TaskStep, Drained, ApiStep

Beating ==
  clock <= LastStart =>
    \A c \in Claims : Holds(c) /\ pc[c] \in Live => beat[c] = schedule.locked /\ clock < beat[c]

LEMMA BeatingStep ==
  ASSUME "silence" \notin Faults, TypeOK, DocumentInv, Beating, [Next]_vars
  PROVE  Beating'
<1> SUFFICES ASSUME clock' <= LastStart, NEW c \in Claims, Holds(c)', pc'[c] \in Live
             PROVE  beat'[c] = schedule'.locked /\ clock' < beat'[c]
  BY DEF Beating
<1>t. /\ clock \in Nat /\ clock + Lease \in Nat /\ clock + Lease > clock /\ LastStart \in Nat
      /\ schedule \in Documents /\ beat \in [Claims -> Nat]
  BY BoundsAssumption DEF TypeOK
<1>k. KeepsClaim(c) /\ Lives(c)
  BY HoldsStep, LivesStep
<1>1. ASSUME NEW w \in Workers, ClaimDue(w) PROVE beat'[c] = schedule'.locked /\ clock' < beat'[c]
  <2>1. /\ schedule' = [schedule EXCEPT !.token = minted + 1, !.locked = clock + Lease]
        /\ beat' = [beat EXCEPT ![minted + 1] = clock + Lease] /\ clock' = clock
    BY <1>1 DEF ClaimDue, Put, LockFromNow
  <2>2. schedule'.token = minted + 1 /\ schedule'.locked = clock + Lease
    BY <1>t, <2>1, FieldsKept
  <2>3. c = minted + 1 BY <2>2 DEF Holds
  <2> QED BY <1>t, <2>1, <2>2, <2>3
<1>2. CASE Renew(c)
  <2>1. CASE Holds(c)
    <3>1. /\ schedule' = [schedule EXCEPT !.locked = clock + Lease] /\ clock' = clock
          /\ beat' = [beat EXCEPT ![c] = clock + Lease]
      BY <1>2, <2>1 DEF Renew, FencedPut, Put, LockFromNow
    <3>2. schedule'.locked = clock + Lease BY <1>t, <3>1, FieldsKept
    <3> QED BY <1>t, <3>1, <3>2
  <2>2. CASE ~Holds(c)
    BY <1>2, <2>2 DEF Renew, FencedPut, document, Holds
  <2> QED BY <2>1, <2>2
<1>3. CASE ~Renew(c) /\ ~ \E w \in Workers : ClaimDue(w)
  <2>1. Holds(c) /\ schedule'.locked = schedule.locked /\ pc[c] \in Live
    BY <1>k, <1>3 DEF KeepsClaim, Lives
  <2>2. clock <= LastStart BY <1>t, CountersStep DEF Tick
  <2>3. beat[c] = schedule.locked /\ clock < beat[c] BY <2>1, <2>2 DEF Beating
  <2>4. beat'[c] = beat[c]
    <3>1. ~Lapse(c) BY <1>t, <2>3 DEF Lapse
    <3> QED BY <1>k, <1>3, <3>1 DEF Lives
  <2>5. CASE UNCHANGED clock
    BY <2>1, <2>3, <2>4, <2>5
  <2>6. CASE Tick
    <3>1. clock' = clock + 1 /\ ~RenewalPending BY <2>6 DEF Tick
    <3>2. beat[c] # None BY <1>t, <2>3 DEF None
    <3>3. ~(clock + 1 >= beat[c]) BY <3>1, <3>2, <2>1, <2>2 DEF RenewalPending
    <3>4. clock + 1 < beat[c] BY <1>t, <3>3
    <3> QED BY <2>1, <2>3, <2>4, <3>1, <3>4
  <2> QED BY <2>5, <2>6, CountersStep
<1> QED BY <1>1, <1>2, <1>3

(* A run executes under the claim it was made for, unless that claim was   *)
(* withdrawn.                                                              *)
Executing == \A c \in Claims : pc[c] = "executing" => Holds(c) \/ c \in withdrawn

(* A run begins to execute when its task has inserted it under its claim.  *)
Executes(c) == pc[c] = "executing" \/ (Insert(c) /\ Advances(c))

LEMMA ExecutesStep ==
  ASSUME TypeOK, [Next]_vars, NEW c \in Claims, pc'[c] = "executing"
  PROVE  Executes(c)
<1>t. pc \in [Claims -> TaskStates]
  BY DEF TypeOK
<1>s. pc[c] = "executing" => Executes(c)
  BY DEF Executes
<1>1. ASSUME NEW w \in Workers, ClaimDue(w) PROVE Executes(c)
  <2>1. pc' = [pc EXCEPT ![minted + 1] = "queued"]
    BY <1>1 DEF ClaimDue, At
  <2> QED BY <1>t, <1>s, <2>1
<1>2. ASSUME NEW w \in Workers, Shutdown(w) PROVE Executes(c)
  BY <1>2, <1>t, <1>s
  DEF Shutdown, Tasks, Waiting, Elsewhere, task, api, history
<1>3. ASSUME NEW w \in Workers, Restart(w) PROVE Executes(c)
  BY <1>3, <1>t, <1>s
  DEF Restart, Elsewhere, task, api, history
<1>4. ASSUME NEW w \in Workers, Crash(w) PROVE Executes(c)
  BY <1>4, <1>t, <1>s
  DEF Crash, Tasks, Elsewhere, task, api, history
<1>5. ASSUME NEW d \in Claims, Enter(d) PROVE Executes(c)
  BY <1>5, <1>t, <1>s
  DEF Enter, At, Elsewhere, task, api, history
<1>6. ASSUME NEW d \in Claims, LoadClaim(d) PROVE Executes(c)
  BY <1>6, <1>t, <1>s
  DEF LoadClaim, At, Leave, Elsewhere, task, api, history
<1>7. ASSUME NEW d \in Claims, ReadDefinition(d) PROVE Executes(c)
  BY <1>7, <1>t, <1>s
  DEF ReadDefinition, At, Elsewhere, task, api, history
<1>8. ASSUME NEW d \in Claims, DisableClaim(d) PROVE Executes(c)
  BY <1>8, <1>t, <1>s
  DEF DisableClaim, At, Leave, Elsewhere, task, api, history
<1>9. ASSUME NEW d \in Claims, Insert(d) PROVE Executes(c)
  <2>1. CASE Advances(d)
    <3>1. pc' = [pc EXCEPT ![d] = "executing"]
      BY <1>9, <2>1 DEF Insert, At
    <3> QED BY <1>9, <1>t, <1>s, <2>1, <3>1 DEF Executes
  <2>2. CASE ~Advances(d)
    <3>1. pc' = [pc EXCEPT ![d] = "done"]
      BY <1>9, <2>2 DEF Insert, At, Leave
    <3> QED BY <1>t, <1>s, <3>1
  <2> QED BY <2>1, <2>2
<1>10. ASSUME NEW d \in Claims, RunReturns(d) PROVE Executes(c)
  BY <1>10, <1>t, <1>s
  DEF RunReturns, At, Elsewhere, task, api, history
<1>11. ASSUME NEW d \in Claims, FinishClaim(d) PROVE Executes(c)
  BY <1>11, <1>t, <1>s
  DEF FinishClaim, At, Leave, Elsewhere, task, api, history
<1>12. ASSUME NEW d \in Claims, FailInserted(d) PROVE Executes(c)
  BY <1>12, <1>t, <1>s
  DEF FailInserted, At, Elsewhere, task, api, history
<1>13. ASSUME NEW d \in Claims, ReleaseClaim(d) PROVE Executes(c)
  BY <1>13, <1>t, <1>s
  DEF ReleaseClaim, At, Leave, Elsewhere, task, api, history
<1>14. ASSUME NEW d \in Claims, Raise(d) PROVE Executes(c)
  BY <1>14, <1>t, <1>s
  DEF Raise, At, Leave, Elsewhere, task, api, history
<1>15. ASSUME NEW d \in Claims, CancelPreparing(d) PROVE Executes(c)
  BY <1>15, <1>t, <1>s
  DEF CancelPreparing, At, Elsewhere, task, api, history
<1>16. ASSUME NEW d \in Claims, CancelInsert(d) PROVE Executes(c)
  BY <1>16, <1>t, <1>s
  DEF CancelInsert, At, Elsewhere, task, api, history
<1>17. ASSUME NEW d \in Claims, CancelExecution(d) PROVE Executes(c)
  BY <1>17, <1>t, <1>s
  DEF CancelExecution, At, Elsewhere, task, api, history
<1>18. ASSUME NEW d \in Claims, CancelLastCall(d) PROVE Executes(c)
  BY <1>18, <1>t, <1>s
  DEF CancelLastCall, At, Leave, Elsewhere, task, api, history
<1>19. ASSUME NEW d \in Claims, Renew(d) PROVE Executes(c)
  BY <1>19, <1>t, <1>s
  DEF Renew, Elsewhere, task, api, history
<1>20. ASSUME NEW d \in Claims, Lapse(d) PROVE Executes(c)
  BY <1>20, <1>t, <1>s
  DEF Lapse, Elsewhere, task, api, history
<1>21. ASSUME NEW d \in Claims, CommitLate(d) PROVE Executes(c)
  BY <1>21, <1>t, <1>s
  DEF CommitLate, Elsewhere, task, api, history
<1>22. ASSUME NEW d \in Claims, ReapRun(d) PROVE Executes(c)
  BY <1>22, <1>t, <1>s
  DEF ReapRun, Elsewhere, task, api, history
<1>23. CASE Tick
  BY <1>23, <1>t, <1>s
  DEF Tick, Elsewhere, task, api, history
<1>24. CASE BeginEnable
  BY <1>24, <1>t, <1>s
  DEF BeginEnable, Elsewhere, task, api, history
<1>25. CASE CommitEnable
  BY <1>25, <1>t, <1>s
  DEF CommitEnable, Elsewhere, task, api, history
<1>26. CASE DisableSchedule
  BY <1>26, <1>t, <1>s
  DEF DisableSchedule, Elsewhere, task, api, history
<1>27. CASE DeleteSchedule
  BY <1>27, <1>t, <1>s
  DEF DeleteSchedule, Elsewhere, task, api, history
<1>28. CASE DisableWorkflow
  BY <1>28, <1>t, <1>s
  DEF DisableWorkflow, Elsewhere, task, api, history
<1>29. CASE EnableWorkflow
  BY <1>29, <1>t, <1>s
  DEF EnableWorkflow, Elsewhere, task, api, history
<1>30. CASE DeleteRuns
  BY <1>30, <1>t, <1>s
  DEF DeleteRuns, Elsewhere, task, api, history
<1>31. CASE DeleteSchedules
  BY <1>31, <1>t, <1>s
  DEF DeleteSchedules, Elsewhere, task, api, history
<1>32. CASE DeleteDefinition
  BY <1>32, <1>t, <1>s
  DEF DeleteDefinition, Elsewhere, task, api, history
<1>33. ASSUME NEW cron \in Crons, ChangeCron(cron) PROVE Executes(c)
  BY <1>33, <1>t, <1>s
  DEF ChangeCron, Elsewhere, task, api, history
<1>34. CASE UNCHANGED vars
  BY <1>34, <1>t, <1>s
  DEF vars, Elsewhere, task, api, document, history
<1> QED BY <1>1, <1>2, <1>3, <1>4, <1>5, <1>6, <1>7, <1>8, <1>9, <1>10, <1>11, <1>12,
    <1>13, <1>14, <1>15, <1>16, <1>17, <1>18, <1>19, <1>20, <1>21, <1>22, <1>23, <1>24,
    <1>25, <1>26, <1>27, <1>28, <1>29, <1>30, <1>31, <1>32, <1>33, <1>34
  DEF Next, TaskStep, Drained, ApiStep

(* What an API call withdrew stays withdrawn, what the drain cancelled      *)
(* stays cancelled, and only what it cancels may commit late.              *)
Grow == withdrawn \subseteq withdrawn' /\ cancelled \subseteq cancelled' /\ commit' \subseteq commit \cup cancelled'

LEMMA GrowStep == ASSUME [Next]_vars PROVE Grow
<1>1. ASSUME NEW w \in Workers, ClaimDue(w) PROVE Grow
  BY <1>1
  DEF ClaimDue, Elsewhere, task, api, document, history, Grow
<1>2. ASSUME NEW w \in Workers, Shutdown(w) PROVE Grow
  BY <1>2
  DEF Shutdown, Elsewhere, task, api, document, history, Grow
<1>3. ASSUME NEW w \in Workers, Restart(w) PROVE Grow
  BY <1>3
  DEF Restart, Elsewhere, task, api, document, history, Grow
<1>4. ASSUME NEW w \in Workers, Crash(w) PROVE Grow
  BY <1>4
  DEF Crash, Elsewhere, task, api, document, history, Grow
<1>5. ASSUME NEW d \in Claims, Enter(d) PROVE Grow
  BY <1>5
  DEF Enter, Elsewhere, task, api, document, history, Grow
<1>6. ASSUME NEW d \in Claims, LoadClaim(d) PROVE Grow
  BY <1>6
  DEF LoadClaim, Elsewhere, task, api, document, history, Grow
<1>7. ASSUME NEW d \in Claims, ReadDefinition(d) PROVE Grow
  BY <1>7
  DEF ReadDefinition, Elsewhere, task, api, document, history, Grow
<1>8. ASSUME NEW d \in Claims, DisableClaim(d) PROVE Grow
  BY <1>8
  DEF DisableClaim, Elsewhere, task, api, document, history, Grow
<1>9. ASSUME NEW d \in Claims, Insert(d) PROVE Grow
  BY <1>9
  DEF Insert, Elsewhere, task, api, document, history, Grow
<1>10. ASSUME NEW d \in Claims, RunReturns(d) PROVE Grow
  BY <1>10
  DEF RunReturns, Elsewhere, task, api, document, history, Grow
<1>11. ASSUME NEW d \in Claims, FinishClaim(d) PROVE Grow
  BY <1>11
  DEF FinishClaim, Elsewhere, task, api, document, history, Grow
<1>12. ASSUME NEW d \in Claims, FailInserted(d) PROVE Grow
  BY <1>12
  DEF FailInserted, Elsewhere, task, api, document, history, Grow
<1>13. ASSUME NEW d \in Claims, ReleaseClaim(d) PROVE Grow
  BY <1>13
  DEF ReleaseClaim, Elsewhere, task, api, document, history, Grow
<1>14. ASSUME NEW d \in Claims, Raise(d) PROVE Grow
  BY <1>14
  DEF Raise, Elsewhere, task, api, document, history, Grow
<1>15. ASSUME NEW d \in Claims, CancelPreparing(d) PROVE Grow
  BY <1>15
  DEF CancelPreparing, Cancel, Elsewhere, task, api, document, history, Grow
<1>16. ASSUME NEW d \in Claims, CancelInsert(d) PROVE Grow
  BY <1>16
  DEF CancelInsert, Cancel, Elsewhere, task, api, document, history, Grow
<1>17. ASSUME NEW d \in Claims, CancelExecution(d) PROVE Grow
  BY <1>17
  DEF CancelExecution, Cancel, Elsewhere, task, api, document, history, Grow
<1>18. ASSUME NEW d \in Claims, CancelLastCall(d) PROVE Grow
  BY <1>18
  DEF CancelLastCall, Cancel, Elsewhere, task, api, document, history, Grow
<1>19. ASSUME NEW d \in Claims, Renew(d) PROVE Grow
  BY <1>19
  DEF Renew, Elsewhere, task, api, document, history, Grow
<1>20. ASSUME NEW d \in Claims, Lapse(d) PROVE Grow
  BY <1>20
  DEF Lapse, Elsewhere, task, api, document, history, Grow
<1>21. ASSUME NEW d \in Claims, CommitLate(d) PROVE Grow
  BY <1>21
  DEF CommitLate, Elsewhere, task, api, document, history, Grow
<1>22. ASSUME NEW d \in Claims, ReapRun(d) PROVE Grow
  BY <1>22
  DEF ReapRun, Elsewhere, task, api, document, history, Grow
<1>23. CASE Tick
  BY <1>23
  DEF Tick, Elsewhere, task, api, document, history, Grow
<1>24. CASE BeginEnable
  BY <1>24
  DEF BeginEnable, Elsewhere, task, api, document, history, Grow
<1>25. CASE CommitEnable
  BY <1>25
  DEF CommitEnable, Elsewhere, task, api, document, history, Grow
<1>26. CASE DisableSchedule
  BY <1>26
  DEF DisableSchedule, Withdraw, Elsewhere, task, api, document, history, Grow
<1>27. CASE DeleteSchedule
  BY <1>27
  DEF DeleteSchedule, Withdraw, Elsewhere, task, api, document, history, Grow
<1>28. CASE DisableWorkflow
  BY <1>28
  DEF DisableWorkflow, Withdraw, Cascade, Elsewhere, task, api, document, history, Grow
<1>29. CASE EnableWorkflow
  BY <1>29
  DEF EnableWorkflow, Elsewhere, task, api, document, history, Grow
<1>30. CASE DeleteRuns
  BY <1>30
  DEF DeleteRuns, Elsewhere, task, api, document, history, Grow
<1>31. CASE DeleteSchedules
  BY <1>31
  DEF DeleteSchedules, Withdraw, Elsewhere, task, api, document, history, Grow
<1>32. CASE DeleteDefinition
  BY <1>32
  DEF DeleteDefinition, Elsewhere, task, api, document, history, Grow
<1>33. ASSUME NEW cron \in Crons, ChangeCron(cron) PROVE Grow
  BY <1>33
  DEF ChangeCron, Elsewhere, task, api, document, history, Grow
<1>34. CASE UNCHANGED vars
  BY <1>34
  DEF vars, Elsewhere, task, api, document, history, Grow
<1> QED BY <1>1, <1>2, <1>3, <1>4, <1>5, <1>6, <1>7, <1>8, <1>9, <1>10, <1>11, <1>12,
    <1>13, <1>14, <1>15, <1>16, <1>17, <1>18, <1>19, <1>20, <1>21, <1>22, <1>23, <1>24,
    <1>25, <1>26, <1>27, <1>28, <1>29, <1>30, <1>31, <1>32, <1>33, <1>34
  DEF Next, TaskStep, Drained, ApiStep

LEMMA ExecutingStep ==
  ASSUME "silence" \notin Faults, TypeOK, DocumentInv, Beating, Executing, [Next]_vars
  PROVE  Executing'
<1> SUFFICES ASSUME NEW c \in Claims, pc'[c] = "executing" PROVE Holds(c)' \/ c \in withdrawn'
  BY DEF Executing
<1>t. schedule \in Documents /\ clock \in Nat /\ schedule.locked \in Nat
  BY DocumentFields DEF TypeOK
<1>1. CASE Insert(c) /\ Advances(c)
  <2>1. schedule.token = c /\ schedule' = [schedule EXCEPT !.next = planned[c]]
    BY <1>1 DEF Insert, Advances, AdvanceAndInsertRun, Put, Holds
  <2>2. schedule'.token = schedule.token BY <1>t, <2>1, FieldsKept
  <2> QED BY <2>1, <2>2 DEF Holds
<1>2. CASE pc[c] = "executing" /\ c \in withdrawn
  BY <1>2, GrowStep DEF Grow
<1>3. CASE pc[c] = "executing" /\ Holds(c)
  <2> SUFFICES ASSUME ~Holds(c)' PROVE c \in withdrawn' OBVIOUS
  <2>1. LetsGo(c) BY <1>3, LosesStep
  <2>2. ~ \E w \in Workers : ClaimDue(w)
    <3> SUFFICES ASSUME NEW w \in Workers, ClaimDue(w) PROVE FALSE OBVIOUS
    <3>1. clock <= LastStart /\ Claimable BY DEF ClaimDue
    <3>2. clock < schedule.locked BY <1>3, <3>1, LiveStates DEF Beating
    <3> QED BY <1>t, <3>1, <3>2 DEF Claimable, None
  <2> QED BY <1>3, <2>1, <2>2 DEF LetsGo, Withdrawn
<1> QED BY <1>1, <1>2, <1>3, ExecutesStep DEF Executing, Executes

OverlapInv == LatestToken /\ Beating /\ Executing

(* Runs of one schedule never overlap while renewals are answered, unless a *)
(* user withdrew the claim of the first.  Only a heartbeat that is silent   *)
(* for a whole lease could let another worker in.                          *)
THEOREM NoOverlap ==
  ASSUME "silence" \notin Faults
  PROVE  Spec => []NoUninvitedOverlap
<1>1. Init => OverlapInv
  <2> SUFFICES ASSUME Init PROVE OverlapInv OBVIOUS
  <2>1. schedule.token = None BY DEF Init, Unclaimed
  <2>2. \A c \in Claims : pc[c] = "unborn" BY DEF Init
  <2>3. "unborn" \notin Live BY LiveStates
  <2> QED BY <2>1, <2>2, <2>3 DEF OverlapInv, LatestToken, Beating, Executing
<1>2. IInv /\ OverlapInv /\ [Next]_vars => OverlapInv'
  BY TokenStep, BeatingStep, ExecutingStep DEF OverlapInv, IInv
<1>3. IInv /\ OverlapInv => NoUninvitedOverlap
  <2> SUFFICES ASSUME IInv, OverlapInv, NEW c \in Claims, NEW d \in Claims,
                      c < d, pc[c] = "executing", pc[d] = "executing", c \notin withdrawn
               PROVE  FALSE
    BY DEF NoUninvitedOverlap
  <2>1. schedule.token = c /\ c # None
    BY BoundsAssumption DEF OverlapInv, Executing, Holds, Claims, None
  <2>2. c = minted BY <2>1 DEF OverlapInv, LatestToken
  <2>3. d > minted BY <2>2, BoundsAssumption DEF Claims
  <2> QED BY <2>3 DEF IInv, TaskInv, Minted
<1> QED BY <1>1, <1>2, <1>3, Invariant, PTL DEF Spec

-----------------------------------------------------------------------------
(* A task that ran lets go of its claim, unless a call of it raised.       *)

Preparing == {"queued", "entered", "loaded", "disabling", "inserting"}
Fresh == \A c \in Claims : pc[c] \in Preparing => run[c] = "none"

LEMMA FreshStep == TypeOK /\ TaskInv /\ Fresh /\ [Next]_vars => Fresh'
<1> SUFFICES ASSUME TypeOK, TaskInv, Fresh, [Next]_vars, NEW c \in Claims, pc'[c] \in Preparing
             PROVE  run'[c] = "none"
  BY DEF Fresh
<1>t. /\ pc \in [Claims -> TaskStates] /\ minted \in Nat /\ Claims \subseteq Nat
      /\ run \in [Claims -> {"none", "running", "ended", "failed", "deleted"}]
  BY BoundsAssumption DEF TypeOK, Claims
<1>f. pc[c] \in Preparing => run[c] = "none"
  BY DEF Fresh
<1>s. \A d \in commit : pc[d] \notin Preparing
  BY DEF TaskInv, Settled, Preparing
<1>1. ASSUME NEW w \in Workers, ClaimDue(w) PROVE run'[c] = "none"
  <2>1. /\ pc' = [pc EXCEPT ![minted + 1] = "queued"] /\ run' = run
    BY <1>1 DEF ClaimDue, At
  <2>2. run[minted + 1] = "none" \/ c # minted + 1
    BY <1>t DEF TaskInv, Minted
  <2> QED BY <1>t, <1>f, <2>1, <2>2
<1>2. ASSUME NEW w \in Workers, Shutdown(w) PROVE run'[c] = "none"
  BY <1>2, <1>t, <1>f, <1>s
  DEF Shutdown, Tasks, Waiting, Elsewhere, task, api, history, Preparing
<1>3. ASSUME NEW w \in Workers, Restart(w) PROVE run'[c] = "none"
  BY <1>3, <1>t, <1>f, <1>s
  DEF Restart, Elsewhere, task, api, history, Preparing
<1>4. ASSUME NEW w \in Workers, Crash(w) PROVE run'[c] = "none"
  <2>1. pc'[c] = pc[c] \/ pc'[c] = "dead"
    BY <1>4 DEF Crash
  <2> QED BY <1>4, <1>f, <2>1 DEF Crash, Preparing
<1>5. ASSUME NEW d \in Claims, Enter(d) PROVE run'[c] = "none"
  BY <1>5, <1>t, <1>f, <1>s
  DEF Enter, At, Elsewhere, task, api, history, Preparing
<1>6. ASSUME NEW d \in Claims, LoadClaim(d) PROVE run'[c] = "none"
  BY <1>6, <1>t, <1>f, <1>s
  DEF LoadClaim, At, Leave, Elsewhere, task, api, history, Preparing
<1>7. ASSUME NEW d \in Claims, ReadDefinition(d) PROVE run'[c] = "none"
  BY <1>7, <1>t, <1>f, <1>s
  DEF ReadDefinition, At, Elsewhere, task, api, history, Preparing
<1>8. ASSUME NEW d \in Claims, DisableClaim(d) PROVE run'[c] = "none"
  BY <1>8, <1>t, <1>f, <1>s
  DEF DisableClaim, At, Leave, Elsewhere, task, api, history, Preparing
<1>9. ASSUME NEW d \in Claims, Insert(d) PROVE run'[c] = "none"
  BY <1>9, <1>t, <1>f, <1>s
  DEF Insert, At, Leave, AdvanceAndInsertRun, Elsewhere, task, api, history, Preparing
<1>10. ASSUME NEW d \in Claims, RunReturns(d) PROVE run'[c] = "none"
  BY <1>10, <1>t, <1>f, <1>s
  DEF RunReturns, At, Elsewhere, task, api, history, Preparing
<1>11. ASSUME NEW d \in Claims, FinishClaim(d) PROVE run'[c] = "none"
  BY <1>11, <1>t, <1>f, <1>s
  DEF FinishClaim, At, Leave, Elsewhere, task, api, history, Preparing
<1>12. ASSUME NEW d \in Claims, FailInserted(d) PROVE run'[c] = "none"
  BY <1>12, <1>t, <1>f, <1>s
  DEF FailInserted, At, Elsewhere, task, api, history, Preparing
<1>13. ASSUME NEW d \in Claims, ReleaseClaim(d) PROVE run'[c] = "none"
  BY <1>13, <1>t, <1>f, <1>s
  DEF ReleaseClaim, At, Leave, Elsewhere, task, api, history, Preparing
<1>14. ASSUME NEW d \in Claims, Raise(d) PROVE run'[c] = "none"
  BY <1>14, <1>t, <1>f, <1>s
  DEF Raise, At, Leave, Elsewhere, task, api, history, Preparing
<1>15. ASSUME NEW d \in Claims, CancelPreparing(d) PROVE run'[c] = "none"
  BY <1>15, <1>t, <1>f, <1>s
  DEF CancelPreparing, At, Elsewhere, task, api, history, Preparing
<1>16. ASSUME NEW d \in Claims, CancelInsert(d) PROVE run'[c] = "none"
  BY <1>16, <1>t, <1>f, <1>s
  DEF CancelInsert, At, AdvanceAndInsertRun, Elsewhere, task, api, history, Preparing
<1>17. ASSUME NEW d \in Claims, CancelExecution(d) PROVE run'[c] = "none"
  BY <1>17, <1>t, <1>f, <1>s
  DEF CancelExecution, At, Elsewhere, task, api, history, Preparing
<1>18. ASSUME NEW d \in Claims, CancelLastCall(d) PROVE run'[c] = "none"
  BY <1>18, <1>t, <1>f, <1>s
  DEF CancelLastCall, At, Leave, Elsewhere, task, api, history, Preparing
<1>19. ASSUME NEW d \in Claims, Renew(d) PROVE run'[c] = "none"
  BY <1>19, <1>t, <1>f, <1>s
  DEF Renew, Elsewhere, task, api, history, Preparing
<1>20. ASSUME NEW d \in Claims, Lapse(d) PROVE run'[c] = "none"
  BY <1>20, <1>t, <1>f, <1>s
  DEF Lapse, Elsewhere, task, api, history, Preparing
<1>21. ASSUME NEW d \in Claims, CommitLate(d) PROVE run'[c] = "none"
  BY <1>21, <1>t, <1>f, <1>s
  DEF CommitLate, Elsewhere, task, api, history, Preparing
<1>22. ASSUME NEW d \in Claims, ReapRun(d) PROVE run'[c] = "none"
  BY <1>22, <1>t, <1>f, <1>s
  DEF ReapRun, Elsewhere, task, api, history, Preparing
<1>23. CASE Tick
  BY <1>23, <1>t, <1>f, <1>s
  DEF Tick, Elsewhere, task, api, history, Preparing
<1>24. CASE BeginEnable
  BY <1>24, <1>t, <1>f, <1>s
  DEF BeginEnable, Elsewhere, task, api, history, Preparing
<1>25. CASE CommitEnable
  BY <1>25, <1>t, <1>f, <1>s
  DEF CommitEnable, Elsewhere, task, api, history, Preparing
<1>26. CASE DisableSchedule
  BY <1>26, <1>t, <1>f, <1>s
  DEF DisableSchedule, Elsewhere, task, api, history, Preparing
<1>27. CASE DeleteSchedule
  BY <1>27, <1>t, <1>f, <1>s
  DEF DeleteSchedule, Elsewhere, task, api, history, Preparing
<1>28. CASE DisableWorkflow
  BY <1>28, <1>t, <1>f, <1>s
  DEF DisableWorkflow, Elsewhere, task, api, history, Preparing
<1>29. CASE EnableWorkflow
  BY <1>29, <1>t, <1>f, <1>s
  DEF EnableWorkflow, Elsewhere, task, api, history, Preparing
<1>30. CASE DeleteRuns
  BY <1>30, <1>t, <1>f, <1>s
  DEF DeleteRuns, Elsewhere, task, api, history, Preparing
<1>31. CASE DeleteSchedules
  BY <1>31, <1>t, <1>f, <1>s
  DEF DeleteSchedules, Elsewhere, task, api, history, Preparing
<1>32. CASE DeleteDefinition
  BY <1>32, <1>t, <1>f, <1>s
  DEF DeleteDefinition, Elsewhere, task, api, history, Preparing
<1>33. ASSUME NEW cron \in Crons, ChangeCron(cron) PROVE run'[c] = "none"
  BY <1>33, <1>t, <1>f, <1>s
  DEF ChangeCron, Elsewhere, task, api, history, Preparing
<1>34. CASE UNCHANGED vars
  BY <1>34, <1>t, <1>f, <1>s
  DEF vars, Elsewhere, task, api, document, history, Preparing
<1> QED BY <1>1, <1>2, <1>3, <1>4, <1>5, <1>6, <1>7, <1>8, <1>9, <1>10, <1>11, <1>12,
    <1>13, <1>14, <1>15, <1>16, <1>17, <1>18, <1>19, <1>20, <1>21, <1>22, <1>23, <1>24,
    <1>25, <1>26, <1>27, <1>28, <1>29, <1>30, <1>31, <1>32, <1>33, <1>34
  DEF Next, TaskStep, Drained, ApiStep

LEMMA EndedStep ==
  ASSUME "error" \notin Faults, TypeOK, DocumentInv, TaskInv, Fresh, commit \subseteq cancelled,
         EndedTaskLetsGo, [Next]_vars
  PROVE  EndedTaskLetsGo'
<1> SUFFICES ASSUME NEW c \in Claims, pc'[c] = "done", Holds(c)'
             PROVE  c \in cancelled' \/ run'[c] = "none"
  BY DEF EndedTaskLetsGo
<1>t. /\ pc \in [Claims -> TaskStates] /\ minted \in Nat /\ Claims \subseteq Nat
      /\ run \in [Claims -> {"none", "running", "ended", "failed", "deleted"}]
  BY BoundsAssumption DEF TypeOK, Claims
<1>n. ASSUME NEW w \in Workers, ClaimDue(w) PROVE FALSE
  <2>1. /\ pc' = [pc EXCEPT ![minted + 1] = "queued"] /\ minted + 1 \in Claims
        /\ schedule' = [schedule EXCEPT !.token = minted + 1, !.locked = LockFromNow]
    BY <1>t, <1>n, BoundsAssumption DEF ClaimDue, At, Put, Claims
  <2>2. schedule'.token = minted + 1 BY <2>1, FieldsKept DEF TypeOK
  <2> QED BY <1>t, <2>1, <2>2 DEF Holds
<1>h. Holds(c)
  BY <1>n, HoldsStep DEF KeepsClaim
<1>e. pc[c] = "done" => c \in cancelled \/ run[c] = "none"
  BY <1>h DEF EndedTaskLetsGo
<1>f. pc[c] \in {"entered", "inserting"} => run[c] = "none"
  BY DEF Fresh, Preparing
<1>g. schedule' # Disabled(schedule) /\ schedule' # Unlocked(schedule)
  BY BoundsAssumption DEF Holds, Disabled, Unlocked, Unclaimed, Claims, None
<1>1. ASSUME NEW w \in Workers, ClaimDue(w) PROVE c \in cancelled' \/ run'[c] = "none"
  BY <1>1, <1>n
<1>2. ASSUME NEW w \in Workers, Shutdown(w) PROVE c \in cancelled' \/ run'[c] = "none"
  BY <1>2, <1>t, <1>h, <1>e, <1>f
  DEF Shutdown, Tasks, Waiting, Elsewhere, task, api, history
<1>3. ASSUME NEW w \in Workers, Restart(w) PROVE c \in cancelled' \/ run'[c] = "none"
  BY <1>3, <1>t, <1>h, <1>e, <1>f
  DEF Restart, Elsewhere, task, api, history
<1>4. ASSUME NEW w \in Workers, Crash(w) PROVE c \in cancelled' \/ run'[c] = "none"
  BY <1>4, <1>t, <1>h, <1>e, <1>f
  DEF Crash, Tasks, Elsewhere, task, api, history
<1>5. ASSUME NEW d \in Claims, Enter(d) PROVE c \in cancelled' \/ run'[c] = "none"
  BY <1>5, <1>t, <1>h, <1>e, <1>f
  DEF Enter, At, Elsewhere, task, api, history
<1>6. ASSUME NEW d \in Claims, LoadClaim(d) PROVE c \in cancelled' \/ run'[c] = "none"
  BY <1>6, <1>t, <1>h, <1>e, <1>f
  DEF LoadClaim, At, Leave, Elsewhere, task, api, history
<1>7. ASSUME NEW d \in Claims, ReadDefinition(d) PROVE c \in cancelled' \/ run'[c] = "none"
  BY <1>7, <1>t, <1>h, <1>e, <1>f
  DEF ReadDefinition, At, Elsewhere, task, api, history
<1>8. ASSUME NEW d \in Claims, DisableClaim(d) PROVE c \in cancelled' \/ run'[c] = "none"
  BY <1>8, <1>t, <1>h, <1>e, <1>g DEF DisableClaim, FencedPut, Put, Leave, At
<1>9. ASSUME NEW d \in Claims, Insert(d) PROVE c \in cancelled' \/ run'[c] = "none"
  BY <1>9, <1>t, <1>h, <1>e, <1>f
  DEF Insert, At, Leave, AdvanceAndInsertRun, Elsewhere, task, api, history
<1>10. ASSUME NEW d \in Claims, RunReturns(d) PROVE c \in cancelled' \/ run'[c] = "none"
  BY <1>10, <1>t, <1>h, <1>e, <1>f
  DEF RunReturns, At, Elsewhere, task, api, history
<1>11. ASSUME NEW d \in Claims, FinishClaim(d) PROVE c \in cancelled' \/ run'[c] = "none"
  BY <1>11, <1>t, <1>h, <1>e, <1>g DEF FinishClaim, FencedPut, Put, Leave, At
<1>12. ASSUME NEW d \in Claims, FailInserted(d) PROVE c \in cancelled' \/ run'[c] = "none"
  BY <1>12, <1>t, <1>h, <1>e, <1>f
  DEF FailInserted, At, Elsewhere, task, api, history
<1>13. ASSUME NEW d \in Claims, ReleaseClaim(d) PROVE c \in cancelled' \/ run'[c] = "none"
  BY <1>13, <1>t, <1>h, <1>e, <1>g DEF ReleaseClaim, FencedPut, Put, Leave, At
<1>14. ASSUME NEW d \in Claims, Raise(d) PROVE c \in cancelled' \/ run'[c] = "none"
  BY <1>14 DEF Raise
<1>15. ASSUME NEW d \in Claims, CancelPreparing(d) PROVE c \in cancelled' \/ run'[c] = "none"
  BY <1>15, <1>t, <1>h, <1>e, <1>f
  DEF CancelPreparing, At, Cancel, Elsewhere, task, api, history
<1>16. ASSUME NEW d \in Claims, CancelInsert(d) PROVE c \in cancelled' \/ run'[c] = "none"
  BY <1>16, <1>t, <1>h, <1>e, <1>f
  DEF CancelInsert, At, Cancel, AdvanceAndInsertRun, Elsewhere, task, api, history
<1>17. ASSUME NEW d \in Claims, CancelExecution(d) PROVE c \in cancelled' \/ run'[c] = "none"
  BY <1>17, <1>t, <1>h, <1>e, <1>f
  DEF CancelExecution, At, Cancel, Elsewhere, task, api, history
<1>18. ASSUME NEW d \in Claims, CancelLastCall(d) PROVE c \in cancelled' \/ run'[c] = "none"
  BY <1>18, <1>t, <1>h, <1>e, <1>f
  DEF CancelLastCall, At, Leave, Cancel, Elsewhere, task, api, history
<1>19. ASSUME NEW d \in Claims, Renew(d) PROVE c \in cancelled' \/ run'[c] = "none"
  BY <1>19, <1>t, <1>h, <1>e, <1>f
  DEF Renew, Elsewhere, task, api, history
<1>20. ASSUME NEW d \in Claims, Lapse(d) PROVE c \in cancelled' \/ run'[c] = "none"
  BY <1>20, <1>t, <1>h, <1>e, <1>f
  DEF Lapse, Elsewhere, task, api, history
<1>21. ASSUME NEW d \in Claims, CommitLate(d) PROVE c \in cancelled' \/ run'[c] = "none"
  BY <1>21, <1>t, <1>h, <1>e, <1>f
  DEF CommitLate, Elsewhere, task, api, history
<1>22. ASSUME NEW d \in Claims, ReapRun(d) PROVE c \in cancelled' \/ run'[c] = "none"
  BY <1>22, <1>t, <1>h, <1>e, <1>f
  DEF ReapRun, Elsewhere, task, api, history
<1>23. CASE Tick
  BY <1>23, <1>t, <1>h, <1>e, <1>f
  DEF Tick, Elsewhere, task, api, history
<1>24. CASE BeginEnable
  BY <1>24, <1>t, <1>h, <1>e, <1>f
  DEF BeginEnable, Elsewhere, task, api, history
<1>25. CASE CommitEnable
  BY <1>25, <1>t, <1>h, <1>e, <1>f
  DEF CommitEnable, Elsewhere, task, api, history
<1>26. CASE DisableSchedule
  BY <1>26, <1>t, <1>h, <1>e, <1>f
  DEF DisableSchedule, Elsewhere, task, api, history
<1>27. CASE DeleteSchedule
  BY <1>27, <1>t, <1>h, <1>e, <1>f
  DEF DeleteSchedule, Elsewhere, task, api, history
<1>28. CASE DisableWorkflow
  BY <1>28, <1>t, <1>h, <1>e, <1>f
  DEF DisableWorkflow, Elsewhere, task, api, history
<1>29. CASE EnableWorkflow
  BY <1>29, <1>t, <1>h, <1>e, <1>f
  DEF EnableWorkflow, Elsewhere, task, api, history
<1>30. CASE DeleteRuns
  BY <1>30, <1>t, <1>h, <1>e, <1>f
  DEF DeleteRuns, Elsewhere, task, api, history
<1>31. CASE DeleteSchedules
  BY <1>31, <1>t, <1>h, <1>e, <1>f
  DEF DeleteSchedules, Elsewhere, task, api, history
<1>32. CASE DeleteDefinition
  BY <1>32, <1>t, <1>h, <1>e, <1>f
  DEF DeleteDefinition, Elsewhere, task, api, history
<1>33. ASSUME NEW cron \in Crons, ChangeCron(cron) PROVE c \in cancelled' \/ run'[c] = "none"
  BY <1>33, <1>t, <1>h, <1>e, <1>f
  DEF ChangeCron, Elsewhere, task, api, history
<1>34. CASE UNCHANGED vars
  BY <1>34, <1>t, <1>h, <1>e, <1>f
  DEF vars, Elsewhere, task, api, document, history
<1> QED BY <1>1, <1>2, <1>3, <1>4, <1>5, <1>6, <1>7, <1>8, <1>9, <1>10, <1>11, <1>12,
    <1>13, <1>14, <1>15, <1>16, <1>17, <1>18, <1>19, <1>20, <1>21, <1>22, <1>23, <1>24,
    <1>25, <1>26, <1>27, <1>28, <1>29, <1>30, <1>31, <1>32, <1>33, <1>34
  DEF Next, TaskStep, Drained, ApiStep

LetGoInv == Fresh /\ commit \subseteq cancelled /\ EndedTaskLetsGo

(* A task that ran its claim's run, and ended, has let go of the claim: the *)
(* next occurrence does not wait for the lock to run out.  Where a call of *)
(* the task raises, or the drain cancels it, the lock is what is left.     *)
THEOREM LetsGoOfClaims ==
  ASSUME "error" \notin Faults
  PROVE  Spec => []EndedTaskLetsGo
<1>1. Init => LetGoInv
  BY DEF Init, LetGoInv, Fresh, EndedTaskLetsGo
<1>2. IInv /\ LetGoInv /\ [Next]_vars => LetGoInv'
  BY FreshStep, EndedStep, GrowStep DEF LetGoInv, IInv, Grow
<1>3. LetGoInv => EndedTaskLetsGo
  BY DEF LetGoInv
<1> QED BY <1>1, <1>2, <1>3, Invariant, PTL DEF Spec

-----------------------------------------------------------------------------
(* No run of a disabled workflow.  The task reads the workflow, and inserts *)
(* the run in a later transaction that does not: what keeps the two apart  *)
(* is that disabling the workflow withdraws the claim.                     *)

EnablesDisabled == enabling # None => schedule.state = "disabled"
DeletedFirst == deleting = "schedules" => schedule.state = "deleted"
InsertsEnabled ==
  \A c \in Claims : (pc[c] = "inserting" \/ c \in commit) /\ Holds(c) => workflow = "enabled"
CascadeInv == EnablesDisabled /\ DeletedFirst /\ InsertsEnabled

LEMMA UnclaimedState ==
  /\ \A s : Disabled(s).state = "disabled" /\ Deleted(s).state = "deleted" /\ Unlocked(s).state = s.state
  /\ \A state, cron, n : Unclaimed(state, cron, n).state = state
BY DEF Disabled, Deleted, Unlocked, Unclaimed

LEMMA StatesStep ==
  TypeOK /\ DocumentInv /\ EnablesDisabled /\ DeletedFirst /\ [Next]_vars
    => EnablesDisabled' /\ DeletedFirst'
<1> SUFFICES ASSUME TypeOK, DocumentInv, EnablesDisabled, DeletedFirst, [Next]_vars
             PROVE  EnablesDisabled' /\ DeletedFirst'
  OBVIOUS
<1>s. schedule \in Documents
  BY DEF TypeOK
<1>d. \A c \in Claims : Holds(c) => schedule.state = "enabled"
  BY HolderEnabled
<1>c. \A c \in commit : c \in Claims /\ Holds(c)
  BY DEF TypeOK, DocumentInv, CommitHolds
<1>e. /\ \A n : [schedule EXCEPT !.next = n].state = schedule.state
      /\ \A n : [schedule EXCEPT !.locked = n].state = schedule.state
      /\ \A x, n : [schedule EXCEPT !.cron = x, !.next = n].state = schedule.state
      /\ \A x, n : [schedule EXCEPT !.token = x, !.locked = n].state = schedule.state
  BY <1>s DEF Documents
<1>1. ASSUME NEW w \in Workers, ClaimDue(w) PROVE EnablesDisabled' /\ DeletedFirst'
  <2>1. /\ schedule.state = "enabled" /\ enabling' = None /\ deleting' = deleting
        /\ schedule' = [schedule EXCEPT !.token = minted + 1, !.locked = LockFromNow]
    BY <1>1 DEF ClaimDue, Claimable, Put, api
  <2>2. schedule'.state = schedule.state
    BY <1>e, <2>1
  <2> QED BY <2>1, <2>2 DEF EnablesDisabled, DeletedFirst
<1>2. ASSUME NEW w \in Workers, Shutdown(w) PROVE EnablesDisabled' /\ DeletedFirst'
  BY <1>2, <1>c, <1>d, <1>e, UnclaimedState
  DEF Shutdown, Elsewhere, api, document, EnablesDisabled, DeletedFirst
<1>3. ASSUME NEW w \in Workers, Restart(w) PROVE EnablesDisabled' /\ DeletedFirst'
  BY <1>3, <1>c, <1>d, <1>e, UnclaimedState
  DEF Restart, Elsewhere, api, document, EnablesDisabled, DeletedFirst
<1>4. ASSUME NEW w \in Workers, Crash(w) PROVE EnablesDisabled' /\ DeletedFirst'
  BY <1>4, <1>c, <1>d, <1>e, UnclaimedState
  DEF Crash, Elsewhere, api, document, EnablesDisabled, DeletedFirst
<1>5. ASSUME NEW d \in Claims, Enter(d) PROVE EnablesDisabled' /\ DeletedFirst'
  BY <1>5, <1>c, <1>d, <1>e, UnclaimedState
  DEF Enter, Elsewhere, api, document, EnablesDisabled, DeletedFirst
<1>6. ASSUME NEW d \in Claims, LoadClaim(d) PROVE EnablesDisabled' /\ DeletedFirst'
  BY <1>6, <1>c, <1>d, <1>e, UnclaimedState
  DEF LoadClaim, Elsewhere, api, document, EnablesDisabled, DeletedFirst
<1>7. ASSUME NEW d \in Claims, ReadDefinition(d) PROVE EnablesDisabled' /\ DeletedFirst'
  BY <1>7, <1>c, <1>d, <1>e, UnclaimedState
  DEF ReadDefinition, Elsewhere, api, document, EnablesDisabled, DeletedFirst
<1>8. ASSUME NEW d \in Claims, DisableClaim(d) PROVE EnablesDisabled' /\ DeletedFirst'
  BY <1>8, <1>c, <1>d, <1>e, UnclaimedState
  DEF DisableClaim, FencedPut, Put, Elsewhere, api, document, EnablesDisabled,
    DeletedFirst
<1>9. ASSUME NEW d \in Claims, Insert(d) PROVE EnablesDisabled' /\ DeletedFirst'
  BY <1>9, <1>c, <1>d, <1>e, UnclaimedState
  DEF Insert, Put, AdvanceAndInsertRun, Advances, Elsewhere, api, document,
    EnablesDisabled, DeletedFirst
<1>10. ASSUME NEW d \in Claims, RunReturns(d) PROVE EnablesDisabled' /\ DeletedFirst'
  BY <1>10, <1>c, <1>d, <1>e, UnclaimedState
  DEF RunReturns, Elsewhere, api, document, EnablesDisabled, DeletedFirst
<1>11. ASSUME NEW d \in Claims, FinishClaim(d) PROVE EnablesDisabled' /\ DeletedFirst'
  BY <1>11, <1>c, <1>d, <1>e, UnclaimedState
  DEF FinishClaim, FencedPut, Put, Elsewhere, api, document, EnablesDisabled,
    DeletedFirst
<1>12. ASSUME NEW d \in Claims, FailInserted(d) PROVE EnablesDisabled' /\ DeletedFirst'
  BY <1>12, <1>c, <1>d, <1>e, UnclaimedState
  DEF FailInserted, Elsewhere, api, document, EnablesDisabled, DeletedFirst
<1>13. ASSUME NEW d \in Claims, ReleaseClaim(d) PROVE EnablesDisabled' /\ DeletedFirst'
  BY <1>13, <1>c, <1>d, <1>e, UnclaimedState
  DEF ReleaseClaim, FencedPut, Put, Elsewhere, api, document, EnablesDisabled,
    DeletedFirst
<1>14. ASSUME NEW d \in Claims, Raise(d) PROVE EnablesDisabled' /\ DeletedFirst'
  BY <1>14, <1>c, <1>d, <1>e, UnclaimedState
  DEF Raise, Elsewhere, api, document, EnablesDisabled, DeletedFirst
<1>15. ASSUME NEW d \in Claims, CancelPreparing(d) PROVE EnablesDisabled' /\ DeletedFirst'
  BY <1>15, <1>c, <1>d, <1>e, UnclaimedState
  DEF CancelPreparing, FencedPut, Put, Elsewhere, api, document, EnablesDisabled,
    DeletedFirst
<1>16. ASSUME NEW d \in Claims, CancelInsert(d) PROVE EnablesDisabled' /\ DeletedFirst'
  BY <1>16, <1>c, <1>d, <1>e, UnclaimedState
  DEF CancelInsert, Put, AdvanceAndInsertRun, Advances, Elsewhere, api, document,
    EnablesDisabled, DeletedFirst
<1>17. ASSUME NEW d \in Claims, CancelExecution(d) PROVE EnablesDisabled' /\ DeletedFirst'
  BY <1>17, <1>c, <1>d, <1>e, UnclaimedState
  DEF CancelExecution, Elsewhere, api, document, EnablesDisabled, DeletedFirst
<1>18. ASSUME NEW d \in Claims, CancelLastCall(d) PROVE EnablesDisabled' /\ DeletedFirst'
  BY <1>18, <1>c, <1>d, <1>e, UnclaimedState
  DEF CancelLastCall, FencedPut, Put, Elsewhere, api, document, EnablesDisabled,
    DeletedFirst
<1>19. ASSUME NEW d \in Claims, Renew(d) PROVE EnablesDisabled' /\ DeletedFirst'
  BY <1>19, <1>c, <1>d, <1>e, UnclaimedState
  DEF Renew, FencedPut, Put, Elsewhere, api, document, EnablesDisabled, DeletedFirst
<1>20. ASSUME NEW d \in Claims, Lapse(d) PROVE EnablesDisabled' /\ DeletedFirst'
  BY <1>20, <1>c, <1>d, <1>e, UnclaimedState
  DEF Lapse, Elsewhere, api, document, EnablesDisabled, DeletedFirst
<1>21. ASSUME NEW d \in Claims, CommitLate(d) PROVE EnablesDisabled' /\ DeletedFirst'
  BY <1>21, <1>c, <1>d, <1>e, UnclaimedState
  DEF CommitLate, Elsewhere, api, document, EnablesDisabled, DeletedFirst
<1>22. ASSUME NEW d \in Claims, ReapRun(d) PROVE EnablesDisabled' /\ DeletedFirst'
  BY <1>22, <1>c, <1>d, <1>e, UnclaimedState
  DEF ReapRun, Elsewhere, api, document, EnablesDisabled, DeletedFirst
<1>23. CASE Tick
  BY <1>23, <1>c, <1>d, <1>e, UnclaimedState
  DEF Tick, Elsewhere, api, document, EnablesDisabled, DeletedFirst
<1>24. CASE BeginEnable
  BY <1>24, <1>c, <1>d, <1>e, UnclaimedState
  DEF BeginEnable, Elsewhere, api, document, EnablesDisabled, DeletedFirst
<1>25. CASE CommitEnable
  BY <1>25, <1>c, <1>d, <1>e, UnclaimedState
  DEF CommitEnable, Put, Elsewhere, api, document, EnablesDisabled, DeletedFirst
<1>26. CASE DisableSchedule
  BY <1>26, <1>c, <1>d, <1>e, UnclaimedState
  DEF DisableSchedule, Put, Elsewhere, api, document, EnablesDisabled, DeletedFirst
<1>27. CASE DeleteSchedule
  BY <1>27, <1>c, <1>d, <1>e, UnclaimedState
  DEF DeleteSchedule, Put, Elsewhere, api, document, EnablesDisabled, DeletedFirst
<1>28. CASE DisableWorkflow
  BY <1>28, <1>c, <1>d, <1>e, UnclaimedState
  DEF DisableWorkflow, Put, Cascade, Elsewhere, api, document, EnablesDisabled,
    DeletedFirst
<1>29. CASE EnableWorkflow
  BY <1>29, <1>c, <1>d, <1>e, UnclaimedState
  DEF EnableWorkflow, Elsewhere, api, document, EnablesDisabled, DeletedFirst
<1>30. CASE DeleteRuns
  BY <1>30, <1>c, <1>d, <1>e, UnclaimedState
  DEF DeleteRuns, Elsewhere, api, document, EnablesDisabled, DeletedFirst
<1>31. CASE DeleteSchedules
  BY <1>31, <1>c, <1>d, <1>e, UnclaimedState
  DEF DeleteSchedules, Put, Elsewhere, api, document, EnablesDisabled, DeletedFirst
<1>32. CASE DeleteDefinition
  BY <1>32, <1>c, <1>d, <1>e, UnclaimedState
  DEF DeleteDefinition, Elsewhere, api, document, EnablesDisabled, DeletedFirst
<1>33. ASSUME NEW cron \in Crons, ChangeCron(cron) PROVE EnablesDisabled' /\ DeletedFirst'
  <2> DEFINE n == IF schedule.state = "enabled" THEN NextFire(cron) ELSE schedule.next
  <2>1. /\ schedule' = [schedule EXCEPT !.cron = cron, !.next = n]
        /\ enabling' = None /\ deleting' = deleting
    BY <1>33 DEF ChangeCron, Put
  <2> HIDE DEF n
  <2>2. schedule'.state = schedule.state
    BY <1>e, <2>1
  <2> QED BY <2>1, <2>2 DEF EnablesDisabled, DeletedFirst
<1>34. CASE UNCHANGED vars
  BY <1>34, <1>c, <1>d, <1>e, UnclaimedState
  DEF vars, Elsewhere, task, api, document, history, EnablesDisabled, DeletedFirst
<1> QED BY <1>1, <1>2, <1>3, <1>4, <1>5, <1>6, <1>7, <1>8, <1>9, <1>10, <1>11, <1>12,
    <1>13, <1>14, <1>15, <1>16, <1>17, <1>18, <1>19, <1>20, <1>21, <1>22, <1>23, <1>24,
    <1>25, <1>26, <1>27, <1>28, <1>29, <1>30, <1>31, <1>32, <1>33, <1>34
  DEF Next, TaskStep, Drained, ApiStep

LEMMA InsertsEnabledStep ==
  TypeOK /\ DocumentInv /\ TaskInv /\ CascadeInv /\ [Next]_vars => InsertsEnabled'
<1> SUFFICES ASSUME TypeOK, DocumentInv, TaskInv, CascadeInv, [Next]_vars, NEW c \in Claims,
                    pc'[c] = "inserting" \/ c \in commit', Holds(c)'
             PROVE  workflow' = "enabled"
  BY DEF InsertsEnabled
<1>t. pc \in [Claims -> TaskStates] /\ minted \in Nat /\ Claims \subseteq Nat
  BY BoundsAssumption DEF TypeOK, Claims
<1>n. ASSUME NEW w \in Workers, ClaimDue(w) PROVE FALSE
  <2>1. /\ pc' = [pc EXCEPT ![minted + 1] = "queued"] /\ minted + 1 \in Claims
        /\ commit = {} /\ commit' = {}
        /\ schedule' = [schedule EXCEPT !.token = minted + 1, !.locked = LockFromNow]
    BY <1>t, <1>n, BoundsAssumption DEF ClaimDue, At, Put, Claims
  <2>2. schedule'.token = minted + 1 BY <2>1, FieldsKept DEF TypeOK
  <2> QED BY <1>t, <2>1, <2>2 DEF Holds
<1>h. Holds(c) /\ schedule.state = "enabled"
  BY <1>n, HoldsStep, HolderEnabled DEF KeepsClaim
<1>w. pc[c] = "inserting" \/ c \in commit => workflow = "enabled"
  BY <1>h DEF CascadeInv, InsertsEnabled
<1>g. schedule' # Disabled(schedule) /\ schedule' # Deleted(schedule)
  BY BoundsAssumption DEF Holds, Disabled, Deleted, Unclaimed, Claims, None
<1>d. deleting # "schedules"
  BY <1>h DEF CascadeInv, DeletedFirst
<1>1. ASSUME NEW w \in Workers, ClaimDue(w) PROVE workflow' = "enabled"
  BY <1>1, <1>n
<1>2. ASSUME NEW w \in Workers, Shutdown(w) PROVE workflow' = "enabled"
  BY <1>2, <1>t, <1>h, <1>w
  DEF Shutdown, Tasks, Waiting, Elsewhere, task, api, history
<1>3. ASSUME NEW w \in Workers, Restart(w) PROVE workflow' = "enabled"
  BY <1>3, <1>t, <1>h, <1>w
  DEF Restart, Elsewhere, task, api, history
<1>4. ASSUME NEW w \in Workers, Crash(w) PROVE workflow' = "enabled"
  BY <1>4, <1>t, <1>h, <1>w
  DEF Crash, Tasks, Elsewhere, task, api, history
<1>5. ASSUME NEW d \in Claims, Enter(d) PROVE workflow' = "enabled"
  BY <1>5, <1>t, <1>h, <1>w
  DEF Enter, At, Elsewhere, task, api, history
<1>6. ASSUME NEW d \in Claims, LoadClaim(d) PROVE workflow' = "enabled"
  BY <1>6, <1>t, <1>h, <1>w
  DEF LoadClaim, At, Leave, Elsewhere, task, api, history
<1>7. ASSUME NEW d \in Claims, ReadDefinition(d) PROVE workflow' = "enabled"
  BY <1>7, <1>t, <1>h, <1>w
  DEF ReadDefinition, At, Elsewhere, task, api, history
<1>8. ASSUME NEW d \in Claims, DisableClaim(d) PROVE workflow' = "enabled"
  BY <1>8, <1>t, <1>h, <1>w
  DEF DisableClaim, At, Leave, Elsewhere, task, api, history
<1>9. ASSUME NEW d \in Claims, Insert(d) PROVE workflow' = "enabled"
  BY <1>9, <1>t, <1>h, <1>w
  DEF Insert, At, Leave, Elsewhere, task, api, history
<1>10. ASSUME NEW d \in Claims, RunReturns(d) PROVE workflow' = "enabled"
  BY <1>10, <1>t, <1>h, <1>w
  DEF RunReturns, At, Elsewhere, task, api, history
<1>11. ASSUME NEW d \in Claims, FinishClaim(d) PROVE workflow' = "enabled"
  BY <1>11, <1>t, <1>h, <1>w
  DEF FinishClaim, At, Leave, Elsewhere, task, api, history
<1>12. ASSUME NEW d \in Claims, FailInserted(d) PROVE workflow' = "enabled"
  BY <1>12, <1>t, <1>h, <1>w
  DEF FailInserted, At, Elsewhere, task, api, history
<1>13. ASSUME NEW d \in Claims, ReleaseClaim(d) PROVE workflow' = "enabled"
  BY <1>13, <1>t, <1>h, <1>w
  DEF ReleaseClaim, At, Leave, Elsewhere, task, api, history
<1>14. ASSUME NEW d \in Claims, Raise(d) PROVE workflow' = "enabled"
  BY <1>14, <1>t, <1>h, <1>w
  DEF Raise, At, Leave, Elsewhere, task, api, history
<1>15. ASSUME NEW d \in Claims, CancelPreparing(d) PROVE workflow' = "enabled"
  BY <1>15, <1>t, <1>h, <1>w
  DEF CancelPreparing, At, Cancel, Elsewhere, task, api, history
<1>16. ASSUME NEW d \in Claims, CancelInsert(d) PROVE workflow' = "enabled"
  BY <1>16, <1>t, <1>h, <1>w
  DEF CancelInsert, At, Cancel, Elsewhere, task, api, history
<1>17. ASSUME NEW d \in Claims, CancelExecution(d) PROVE workflow' = "enabled"
  BY <1>17, <1>t, <1>h, <1>w
  DEF CancelExecution, At, Cancel, Elsewhere, task, api, history
<1>18. ASSUME NEW d \in Claims, CancelLastCall(d) PROVE workflow' = "enabled"
  BY <1>18, <1>t, <1>h, <1>w
  DEF CancelLastCall, At, Leave, Cancel, Elsewhere, task, api, history
<1>19. ASSUME NEW d \in Claims, Renew(d) PROVE workflow' = "enabled"
  BY <1>19, <1>t, <1>h, <1>w
  DEF Renew, Elsewhere, task, api, history
<1>20. ASSUME NEW d \in Claims, Lapse(d) PROVE workflow' = "enabled"
  BY <1>20, <1>t, <1>h, <1>w
  DEF Lapse, Elsewhere, task, api, history
<1>21. ASSUME NEW d \in Claims, CommitLate(d) PROVE workflow' = "enabled"
  BY <1>21, <1>t, <1>h, <1>w
  DEF CommitLate, Elsewhere, task, api, history
<1>22. ASSUME NEW d \in Claims, ReapRun(d) PROVE workflow' = "enabled"
  BY <1>22, <1>t, <1>h, <1>w
  DEF ReapRun, Elsewhere, task, api, history
<1>23. CASE Tick
  BY <1>23, <1>t, <1>h, <1>w
  DEF Tick, Elsewhere, task, api, history
<1>24. CASE BeginEnable
  BY <1>24, <1>t, <1>h, <1>w
  DEF BeginEnable, Elsewhere, task, api, history
<1>25. CASE CommitEnable
  BY <1>25, <1>t, <1>h, <1>w
  DEF CommitEnable, Elsewhere, task, api, history
<1>26. CASE DisableSchedule
  BY <1>26, <1>t, <1>h, <1>w
  DEF DisableSchedule, Elsewhere, task, api, history
<1>27. CASE DeleteSchedule
  BY <1>27, <1>t, <1>h, <1>w
  DEF DeleteSchedule, Elsewhere, task, api, history
<1>28. CASE DisableWorkflow
  BY <1>28, <1>h, <1>g DEF DisableWorkflow, Cascade, Put
<1>29. CASE EnableWorkflow
  BY <1>29, <1>t, <1>h, <1>w
  DEF EnableWorkflow, Elsewhere, task, api, history
<1>30. CASE DeleteRuns
  BY <1>30, <1>t, <1>h, <1>w
  DEF DeleteRuns, Elsewhere, task, api, history
<1>31. CASE DeleteSchedules
  BY <1>31, <1>t, <1>h, <1>w
  DEF DeleteSchedules, Elsewhere, task, api, history
<1>32. CASE DeleteDefinition
  BY <1>32, <1>d DEF DeleteDefinition
<1>33. ASSUME NEW cron \in Crons, ChangeCron(cron) PROVE workflow' = "enabled"
  BY <1>33, <1>t, <1>h, <1>w
  DEF ChangeCron, Elsewhere, task, api, history
<1>34. CASE UNCHANGED vars
  BY <1>34, <1>t, <1>h, <1>w
  DEF vars, Elsewhere, task, api, document, history
<1> QED BY <1>1, <1>2, <1>3, <1>4, <1>5, <1>6, <1>7, <1>8, <1>9, <1>10, <1>11, <1>12,
    <1>13, <1>14, <1>15, <1>16, <1>17, <1>18, <1>19, <1>20, <1>21, <1>22, <1>23, <1>24,
    <1>25, <1>26, <1>27, <1>28, <1>29, <1>30, <1>31, <1>32, <1>33, <1>34
  DEF Next, TaskStep, Drained, ApiStep

(* A run begins with a transaction of the claim that holds the schedule.   *)
LEMMA RunBegins ==
  ASSUME TypeOK, DocumentInv, [Next]_vars, NEW c \in Claims, run[c] = "none", run'[c] # "none"
  PROVE  (pc[c] = "inserting" \/ c \in commit) /\ Holds(c)
<1>1. c \notin Inserted /\ c \in Inserted'
  BY DEF Inserted
<1>2. PICK d \in Claims : Advanced(d)
  BY <1>1, StepEffect DEF Effect, Idle, Cleared, Renewed, Claimed, Opened, Closed, Began, Enabled,
     Edited, SameRuns
<1>3. d = c
  BY <1>1, <1>2 DEF Advanced
<1> QED BY <1>2, <1>3 DEF Advanced

(* No run is inserted for a workflow that is disabled or deleted, however  *)
(* the API's cascade interleaves with the task that read it as enabled, a  *)
(* toggle that re-enables the schedule, and a commit that comes late.      *)
THEOREM NoOrphanFires == Spec => NoRunOfDisabledWorkflow
<1>1. Init => CascadeInv
  BY DEF Init, CascadeInv, EnablesDisabled, DeletedFirst, InsertsEnabled
<1>2. IInv /\ CascadeInv /\ [Next]_vars => CascadeInv'
  BY StatesStep, InsertsEnabledStep DEF CascadeInv, IInv
<1>3. IInv /\ CascadeInv /\ [Next]_vars
        => [\A c \in Claims : run[c] = "none" /\ run'[c] # "none" => workflow = "enabled"]_vars
  BY RunBegins DEF CascadeInv, InsertsEnabled, IInv
<1> QED BY <1>1, <1>2, <1>3, Invariant, PTL DEF Spec, NoRunOfDisabledWorkflow
=============================================================================
