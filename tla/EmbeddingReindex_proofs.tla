----------------------- MODULE EmbeddingReindex_proofs -----------------------
(***************************************************************************)
(* Theorems about EmbeddingReindex: its types, that of the jobs which      *)
(* start from one generation one completes, that a generation in use is    *)
(* not dropped, that the selected generation follows MongoDB, and that a   *)
(* switch is complete.                                                     *)
(***************************************************************************)
EXTENDS EmbeddingReindex, TLAPS

DocumentOK == document \in Documents
SelectionOK == selection \in Generations
VectorsOK == vectors \in [Generations -> Versions \cup {Absent, Missing}]
JobsOK ==
  /\ jobs \in [Jobs -> Records]
  /\ \A j \in Jobs : jobs[j].live \/ jobs[j].holder # Nobody => jobs[j].status = "running"
PodRecords == [active : BOOLEAN, stale : BOOLEAN, generation : Generations]
PodsOK == pods \in [Pods -> PodRecords]
(* A runner has a job when, and only when, it is not idle. *)
ExecutorOK ==
  /\ executor \in [Pods -> Executors]
  /\ \A p \in Pods : executor[p].job = NoJob <=> executor[p].step = "idle"
(* A writer that is busy works for a pod. *)
WriterOK ==
  /\ writer \in [Writers -> WriterStates]
  /\ \A w \in Writers : writer[w].pc = "idle" \/ writer[w].pod \in Pods
RestOK ==
  /\ mishaps \in 0..MaxFaults
  /\ causes \subseteq AllCauses
(* A pass drops the generation of a job. *)
CollectorOK ==
  /\ collector \in [Pods -> Passes]
  /\ \A p \in Pods : collector[p].step = "drop" => collector[p].victim \in Jobs
(* What is asked for was not yet inserted. *)
AskedOK == asked \subseteq Jobs /\ \A j \in asked : jobs[j] = NoRecord

Typed ==
  /\ DocumentOK /\ SelectionOK /\ VectorsOK /\ JobsOK /\ PodsOK
  /\ ExecutorOK /\ WriterOK /\ CollectorOK /\ RestOK /\ AskedOK

LEMMA TypedIsTypeOK == Typed => TypeOK
BY DEF Typed, TypeOK, DocumentOK, SelectionOK, VectorsOK, JobsOK, PodsOK, PodRecords, ExecutorOK,
       WriterOK, CollectorOK, RestOK, AskedOK

LEMMA Names ==
  /\ NoJob \notin Jobs /\ Nobody \notin Pods /\ Base \notin Jobs /\ Jobs \subseteq Generations
  /\ Base \in Generations /\ NoJob \notin Generations
BY NamesAssumption DEF Generations, Base, NoJob, Nobody

LEMMA Put ==
  ASSUME NEW S, NEW T, NEW f \in [S -> T], NEW x \in S, NEW v \in T
  PROVE  /\ [f EXCEPT ![x] = v] \in [S -> T] /\ [f EXCEPT ![x] = v][x] = v
         /\ \A y \in S \ {x} : [f EXCEPT ![x] = v][y] = f[y]
OBVIOUS

LEMMA GcKeeps ==
  ASSUME NEW p \in Pods, GcRead(p) \/ Gc(p) \/ GcFails(p)
  PROVE  /\ UNCHANGED <<document, selection, jobs, asked, pods, executor, writer, causes>>
         /\ mishaps' = mishaps \/ Fault("error")
         /\ \/ vectors' = vectors
            \/ GcDrop(p) /\ vectors' = [vectors EXCEPT ![collector[p].victim] = Missing]
BY DEF GcRead, Gc, GcProtect, GcList, GcCheck, GcDrop, GcFails, GcUnchanged

-----------------------------------------------------------------------------
(* Runners of jobs *)

LEMMA OwnsMeans ==
  ASSUME NEW p \in Pods
  PROVE  Owns(p) <=> /\ Mine(p) # NoJob /\ jobs[Mine(p)].status = "running"
                     /\ jobs[Mine(p)].live /\ jobs[Mine(p)].holder = p
BY DEF Owns, Active, Running, Mine

LEMMA MineIsJob ==
  ASSUME ExecutorOK, NEW p \in Pods, executor[p].step # "idle" \/ Owns(p)
  PROVE  Mine(p) \in Jobs
BY OwnsMeans DEF ExecutorOK, Executors, Mine

LEMMA StepsOnly ==
  ASSUME ExecutorOK, NEW p \in Pods
  PROVE  /\ executor[p] \in Executors /\ executor[p].step \in Steps
         /\ executor[p].seen \in Versions \cup {Absent}
BY DEF ExecutorOK, Executors

(* The runner of pod p gets state e, whatever the others do. *)
Moves(p, e) ==
  /\ executor'[p] = e
  /\ \A q \in Pods \ {p} : executor'[q] = executor[q]

LEMMA MovesFit ==
  ASSUME ExecutorOK, NEW p \in Pods, NEW e \in Executors, e.job = NoJob <=> e.step = "idle",
         executor' = [executor EXCEPT ![p] = e]
  PROVE  ExecutorOK' /\ Moves(p, e)
BY DEF ExecutorOK, Moves

LEMMA GotoFits ==
  ASSUME ExecutorOK, NEW p \in Pods, executor[p].step # "idle", NEW s \in Steps \ {"idle"}, Goto(p, s)
  PROVE  /\ ExecutorOK'
         /\ executor'[p].job = executor[p].job /\ executor'[p].step = s
         /\ executor'[p].seen = executor[p].seen
         /\ \A q \in Pods \ {p} : executor'[q] = executor[q]
<1> DEFINE e == [executor[p] EXCEPT !.step = s]
<1>1. executor[p] \in Executors /\ executor[p].job # NoJob
  BY DEF ExecutorOK
<1>2. /\ e \in Executors /\ e.job = executor[p].job /\ e.step = s
      /\ e.seen = executor[p].seen
  BY <1>1 DEF Executors
<1>3. executor' = [executor EXCEPT ![p] = e]
  BY DEF Goto
<1> HIDE DEF e
<1>4. ExecutorOK' /\ Moves(p, e)
  BY <1>1, <1>2, <1>3, MovesFit
<1> QED BY <1>2, <1>4 DEF Moves

LEMMA StopsFits ==
  ASSUME ExecutorOK, NEW p \in Pods, Stops(p)
  PROVE  ExecutorOK' /\ Moves(p, NoExecution)
<1>1. NoExecution \in Executors /\ NoExecution.job = NoJob /\ NoExecution.step = "idle"
  BY DEF NoExecution, Executors, Steps
<1> QED BY <1>1, MovesFit DEF Stops

LEMMA ClaimFits ==
  ASSUME ExecutorOK, NEW p \in Pods, NEW j \in Jobs, Claim(p, j)
  PROVE  /\ ExecutorOK'
         /\ executor'[p].job = j /\ executor'[p].step = "load"
         /\ \A q \in Pods \ {p} : executor'[q] = executor[q]
<1> DEFINE e == [NoExecution EXCEPT !.job = j, !.step = "load"]
<1>1. e \in Executors /\ e.job = j /\ e.step = "load" /\ j # NoJob
  BY Names DEF NoExecution, Executors, Steps, Fenced
<1>2. executor' = [executor EXCEPT ![p] = e]
  BY DEF Claim
<1> HIDE DEF e
<1>3. ExecutorOK' /\ Moves(p, e)
  BY <1>1, <1>2, MovesFit
<1> QED BY <1>1, <1>3 DEF Moves

(* How the runner of a pod comes to the step it is at. *)
Edge(p) ==
  LET before == executor[p]
      after == executor'[p]
  IN  \/ after = before
      \/ after.step = "idle"
      \/ after.step = "load" /\ \E j \in Jobs : Claim(p, j) /\ after.job = j
      \/ /\ after.job = before.job /\ before.step # "idle"
         /\ \/ after.step = "grace" /\ Load(p) /\ selection = before.job
            \/ after.step = "drop" /\ Load(p) /\ selection = jobs[before.job].previous
            \/ after.step = "sweep" /\ Prepare(p)
            \/ after.step = "embed" /\ Sweep(p) /\ after.seen = document.version
            \/ after.step = "wait" /\ Embed(p)
            \/ after.step = "catchup" /\ AwaitWriters(p) /\ DelayOver(before.job) /\ ~Federating
            \/ after.step = "remove" /\ CatchUp(p)
            \/ after.step = "commit" /\ DeleteRemoved(p)
            \/ after.step = "grace" /\ CommitGeneration(p) /\ selection' = before.job

ExecutorFits == ExecutorOK' /\ \A p \in Pods : Edge(p)

LEMMA ExecutorSame ==
  ASSUME ExecutorOK, UNCHANGED executor
  PROVE  ExecutorFits
BY DEF ExecutorFits, ExecutorOK, Edge

LEMMA StopsIsEdge ==
  ASSUME ExecutorOK, NEW p \in Pods, Stops(p)
  PROVE  ExecutorFits
<1>1. ExecutorOK' /\ Moves(p, NoExecution)
  BY StopsFits
<1>2. NoExecution.step = "idle"
  BY DEF NoExecution
<1>3. \A q \in Pods : executor'[q] = executor[q] \/ executor'[q].step = "idle"
  BY <1>1, <1>2 DEF Moves
<1> QED BY <1>1, <1>3 DEF ExecutorFits, Edge

LEMMA OneEdge ==
  ASSUME ExecutorOK', NEW p \in Pods, Edge(p), \A q \in Pods \ {p} : executor'[q] = executor[q]
  PROVE  ExecutorFits
<1>1. ASSUME NEW q \in Pods \ {p} PROVE Edge(q)
  BY <1>1 DEF Edge
<1> QED BY <1>1 DEF ExecutorFits

LEMMA ExecutorStep ==
  ASSUME Typed, [Next]_vars
  PROVE  ExecutorFits
<1>0. ExecutorOK /\ DocumentOK
  BY DEF Typed
<1>1. ASSUME NEW j \in Jobs, Ask(j) PROVE ExecutorFits
  BY <1>1, <1>0, ExecutorSame
  DEF Ask
<1>2. ASSUME NEW j \in Jobs, Insert(j) PROVE ExecutorFits
  BY <1>2, <1>0, ExecutorSame
  DEF Insert
<1>3. ASSUME NEW j \in Jobs, Expire(j) PROVE ExecutorFits
  BY <1>3, <1>0, ExecutorSame
  DEF Expire
<1>4. ASSUME NEW j \in Jobs, RetentionEnds(j) PROVE ExecutorFits
  BY <1>4, <1>0, ExecutorSame
  DEF RetentionEnds
<1>5. ASSUME NEW p \in Pods, NEW j \in Jobs, Claim(p, j) PROVE ExecutorFits
  <2>1. /\ ExecutorOK' /\ executor'[p].job = j /\ executor'[p].step = "load"
        /\ \A q \in Pods \ {p} : executor'[q] = executor[q]
    BY <1>0, <1>5, ClaimFits
  <2>2. Edge(p)
    BY <1>5, <2>1 DEF Edge
  <2> QED BY <2>1, <2>2, OneEdge
<1>6. ASSUME NEW p \in Pods, Poll(p) PROVE ExecutorFits
  BY <1>6, <1>0, ExecutorSame
  DEF Poll
<1>7. ASSUME NEW p \in Pods, PollFails(p) PROVE ExecutorFits
  BY <1>7, <1>0, ExecutorSame
  DEF PollFails
<1>8. ASSUME NEW p \in Pods, Load(p) PROVE ExecutorFits
  <2>1. executor[p].step # "idle"
    BY <1>8 DEF Load, At
  <2>2. CASE Stops(p)
    BY <1>0, <2>2, StopsIsEdge
  <2>3. CASE Goto(p, "grace") /\ selection = Mine(p)
    <3>1. "grace" \in Steps \ {"idle"}
      BY DEF Steps, Fenced
    <3>2. /\ ExecutorOK' /\ executor'[p].job = executor[p].job /\ executor'[p].step = "grace"
          /\ \A q \in Pods \ {p} : executor'[q] = executor[q]
      BY <1>0, <2>1, <2>3, <3>1, GotoFits
    <3>3. Edge(p)
      BY <1>8, <2>1, <2>3, <3>2 DEF Edge, Mine
    <3> QED BY <3>2, <3>3, OneEdge
  <2>4. CASE Goto(p, "drop") /\ selection = jobs[Mine(p)].previous
    <3>1. "drop" \in Steps \ {"idle"}
      BY DEF Steps, Fenced
    <3>2. /\ ExecutorOK' /\ executor'[p].job = executor[p].job /\ executor'[p].step = "drop"
          /\ \A q \in Pods \ {p} : executor'[q] = executor[q]
      BY <1>0, <2>1, <2>4, <3>1, GotoFits
    <3>3. Edge(p)
      BY <1>8, <2>1, <2>4, <3>2 DEF Edge, Mine
    <3> QED BY <3>2, <3>3, OneEdge
  <2> QED BY <1>8, <2>2, <2>3, <2>4 DEF Load, Fail
<1>9. ASSUME NEW p \in Pods, Prepare(p) PROVE ExecutorFits
  <2>1. executor[p].step # "idle"
    BY <1>9 DEF Prepare, At
  <2>2. Goto(p, "sweep")
    BY <1>9 DEF Prepare
  <2>3. "sweep" \in Steps \ {"idle"}
    BY DEF Steps, Fenced
  <2>4. /\ ExecutorOK' /\ executor'[p].job = executor[p].job /\ executor'[p].step = "sweep"
        /\ \A q \in Pods \ {p} : executor'[q] = executor[q]
    BY <1>0, <2>1, <2>2, <2>3, GotoFits
  <2>5. Edge(p)
    BY <1>9, <2>1, <2>4 DEF Edge
  <2> QED BY <2>4, <2>5, OneEdge
<1>10. ASSUME NEW p \in Pods, Sweep(p) PROVE ExecutorFits
  <2> DEFINE e == [executor[p] EXCEPT !.step = "embed", !.seen = document.version]
  <2>1. executor[p] \in Executors /\ executor[p].step # "idle" /\ executor[p].job # NoJob
    BY <1>0, <1>10 DEF Sweep, At, ExecutorOK
  <2>2. /\ e \in Executors /\ e.job = executor[p].job /\ e.step = "embed"
        /\ e.seen = document.version
    BY <1>0, <2>1 DEF Executors, Steps, Fenced, DocumentOK, Documents
  <2>3. executor' = [executor EXCEPT ![p] = e]
    BY <1>0, <1>10 DEF Sweep, ExecutorOK, Executors
  <2> HIDE DEF e
  <2>4. ExecutorOK' /\ Moves(p, e)
    BY <1>0, <2>1, <2>2, <2>3, MovesFit
  <2>5. Edge(p)
    BY <1>10, <2>1, <2>2, <2>4 DEF Edge, Moves
  <2> QED BY <2>4, <2>5, OneEdge DEF Moves
<1>11. ASSUME NEW p \in Pods, Embed(p) PROVE ExecutorFits
  <2> DEFINE e == [executor[p] EXCEPT !.step = "wait", !.seen = Absent]
  <2>1. executor[p] \in Executors /\ executor[p].step # "idle" /\ executor[p].job # NoJob
    BY <1>0, <1>11 DEF Embed, At, ExecutorOK
  <2>2. /\ e \in Executors /\ e.job = executor[p].job /\ e.step = "wait"
        /\ e.seen = Absent
    BY <1>0, <2>1 DEF Executors, Steps, Fenced, DocumentOK, Documents
  <2>3. executor' = [executor EXCEPT ![p] = e]
    BY <1>0, <1>11 DEF Embed, ExecutorOK, Executors
  <2> HIDE DEF e
  <2>4. ExecutorOK' /\ Moves(p, e)
    BY <1>0, <2>1, <2>2, <2>3, MovesFit
  <2>5. Edge(p)
    BY <1>11, <2>1, <2>2, <2>4 DEF Edge, Moves
  <2> QED BY <2>4, <2>5, OneEdge DEF Moves
<1>12. ASSUME NEW p \in Pods, AwaitWriters(p) PROVE ExecutorFits
  <2>1. executor[p].step # "idle"
    BY <1>12 DEF AwaitWriters, At
  <2>2. CASE Stops(p)
    BY <1>0, <2>2, StopsIsEdge
  <2>3. CASE Goto(p, "catchup") /\ DelayOver(Mine(p)) /\ ~Federating
    <3>1. "catchup" \in Steps \ {"idle"}
      BY DEF Steps, Fenced
    <3>2. /\ ExecutorOK' /\ executor'[p].job = executor[p].job /\ executor'[p].step = "catchup"
          /\ \A q \in Pods \ {p} : executor'[q] = executor[q]
      BY <1>0, <2>1, <2>3, <3>1, GotoFits
    <3>3. Edge(p)
      BY <1>12, <2>1, <2>3, <3>2 DEF Edge, Mine
    <3> QED BY <3>2, <3>3, OneEdge
  <2> QED BY <1>12, <2>2, <2>3 DEF AwaitWriters, Fail
<1>13. ASSUME NEW p \in Pods, CatchUp(p) PROVE ExecutorFits
  <2>1. executor[p].step # "idle"
    BY <1>13 DEF CatchUp, At
  <2>2. Goto(p, "remove")
    BY <1>13 DEF CatchUp
  <2>3. "remove" \in Steps \ {"idle"}
    BY DEF Steps, Fenced
  <2>4. /\ ExecutorOK' /\ executor'[p].job = executor[p].job /\ executor'[p].step = "remove"
        /\ \A q \in Pods \ {p} : executor'[q] = executor[q]
    BY <1>0, <2>1, <2>2, <2>3, GotoFits
  <2>5. Edge(p)
    BY <1>13, <2>1, <2>4 DEF Edge
  <2> QED BY <2>4, <2>5, OneEdge
<1>14. ASSUME NEW p \in Pods, DeleteRemoved(p) PROVE ExecutorFits
  <2>1. executor[p].step # "idle"
    BY <1>14 DEF DeleteRemoved, At
  <2>2. Goto(p, "commit")
    BY <1>14 DEF DeleteRemoved
  <2>3. "commit" \in Steps \ {"idle"}
    BY DEF Steps, Fenced
  <2>4. /\ ExecutorOK' /\ executor'[p].job = executor[p].job /\ executor'[p].step = "commit"
        /\ \A q \in Pods \ {p} : executor'[q] = executor[q]
    BY <1>0, <2>1, <2>2, <2>3, GotoFits
  <2>5. Edge(p)
    BY <1>14, <2>1, <2>4 DEF Edge
  <2> QED BY <2>4, <2>5, OneEdge
<1>15. ASSUME NEW p \in Pods, CommitGeneration(p) PROVE ExecutorFits
  <2>1. executor[p].step # "idle"
    BY <1>15 DEF CommitGeneration, At
  <2>2. CASE Stops(p)
    BY <1>0, <2>2, StopsIsEdge
  <2>3. CASE Goto(p, "grace") /\ selection' = Mine(p)
    <3>1. "grace" \in Steps \ {"idle"}
      BY DEF Steps, Fenced
    <3>2. /\ ExecutorOK' /\ executor'[p].job = executor[p].job /\ executor'[p].step = "grace"
          /\ \A q \in Pods \ {p} : executor'[q] = executor[q]
      BY <1>0, <2>1, <2>3, <3>1, GotoFits
    <3>3. Edge(p)
      BY <1>15, <2>1, <2>3, <3>2 DEF Edge, Mine
    <3> QED BY <3>2, <3>3, OneEdge
  <2> QED BY <1>15, <2>2, <2>3 DEF CommitGeneration, Fail
<1>16. ASSUME NEW p \in Pods, Complete(p) PROVE ExecutorFits
  BY <1>0, <1>16, StopsIsEdge DEF Complete
<1>17. ASSUME NEW p \in Pods, LeaseLost(p) PROVE ExecutorFits
  BY <1>0, <1>17, StopsIsEdge DEF LeaseLost
<1>18. ASSUME NEW p \in Pods, SweepFails(p) PROVE ExecutorFits
  BY <1>0, <1>18, StopsIsEdge DEF SweepFails, Fail
<1>19. ASSUME NEW p \in Pods, Crash(p) PROVE ExecutorFits
  BY <1>0, <1>19, StopsIsEdge DEF Crash
<1>20. ASSUME NEW p \in Pods, GcRead(p) \/ Gc(p) \/ GcFails(p) PROVE ExecutorFits
  BY <1>20, <1>0, ExecutorSame, GcKeeps
<1>21. ASSUME NEW w \in Writers, Commit(w) PROVE ExecutorFits
  BY <1>21, <1>0, ExecutorSame
  DEF Commit
<1>22. ASSUME NEW w \in Writers, Resolve(w) PROVE ExecutorFits
  BY <1>22, <1>0, ExecutorSame
  DEF Resolve
<1>23. ASSUME NEW w \in Writers, Land(w) PROVE ExecutorFits
  BY <1>23, <1>0, ExecutorSame
  DEF Land
<1>24. ASSUME NEW w \in Writers, SyncStalls(w) PROVE ExecutorFits
  BY <1>24, <1>0, ExecutorSame
  DEF SyncStalls
<1>25. ASSUME NEW w \in Writers, NEW p \in Pods, Pass(w, p) PROVE ExecutorFits
  BY <1>25, <1>0, ExecutorSame
  DEF Pass
<1>26. ASSUME NEW w \in Writers, NEW p \in Pods, Federate(w, p) PROVE ExecutorFits
  BY <1>26, <1>0, ExecutorSame
  DEF Federate
<1>27. ASSUME NEW w \in Writers, NEW p \in Pods, Reconcile(w, p) PROVE ExecutorFits
  BY <1>27, <1>0, ExecutorSame
  DEF Reconcile
<1>28. CASE UNCHANGED vars
  BY <1>28, <1>0, ExecutorSame
  DEF vars
<1> QED BY <1>1, <1>2, <1>3, <1>4, <1>5, <1>6, <1>7, <1>8, <1>9, <1>10, <1>11, <1>12,
    <1>13, <1>14, <1>15, <1>16, <1>17, <1>18, <1>19, <1>20, <1>21, <1>22, <1>23, <1>24,
    <1>25, <1>26, <1>27, <1>28
  DEF Next, Execute

-----------------------------------------------------------------------------
(* Jobs *)

LEMMA OneJob ==
  ASSUME JobsOK, NEW j \in Jobs, NEW e \in Records,
         e.live \/ e.holder # Nobody => e.status = "running",
         jobs' = [jobs EXCEPT ![j] = e]
  PROVE  JobsOK' /\ jobs'[j] = e /\ \A i \in Jobs \ {j} : jobs'[i] = jobs[i]
BY DEF JobsOK

LEMMA NoRecordShape ==
  /\ NoRecord \in Records /\ NoRecord.status = "none" /\ NoRecord.previous = NoJob
  /\ NoRecord.holder = Nobody /\ NoRecord.live = FALSE /\ NoRecord.early = {}
  /\ NoRecord.since = Absent /\ NoRecord.recent = FALSE
BY BoundsAssumption DEF NoRecord, Records

Identity(j) ==
  /\ jobs'[j].status = jobs[j].status /\ jobs'[j].previous = jobs[j].previous
  /\ jobs'[j].since = jobs[j].since
Kept(j) ==
  /\ Identity(j) /\ jobs'[j].holder = jobs[j].holder
  /\ jobs'[j].live = jobs[j].live /\ jobs'[j].recent = jobs[j].recent

LEMMA EarlyShape ==
  ASSUME JobsOK, NEW E \in [Jobs -> SUBSET (Pods \cup Writers)],
         jobs' = [j \in Jobs |-> [jobs[j] EXCEPT !.early = E[j]]]
  PROVE  /\ JobsOK'
         /\ \A j \in Jobs : Kept(j) /\ jobs'[j].early = E[j]
         /\ \A j \in Jobs : jobs[j] = NoRecord /\ E[j] = {} => jobs'[j] = NoRecord
<1>1. ASSUME NEW j \in Jobs
      PROVE  /\ jobs'[j] \in Records /\ jobs'[j].early = E[j] /\ Kept(j)
  <2>1. jobs[j] \in Records /\ E[j] \in SUBSET (Pods \cup Writers)
    BY DEF JobsOK
  <2>2. jobs'[j] = [jobs[j] EXCEPT !.early = E[j]]
    OBVIOUS
  <2> QED BY <2>1, <2>2 DEF Records, Kept, Identity
<1>2. ASSUME NEW j \in Jobs, jobs[j] = NoRecord, E[j] = {} PROVE jobs'[j] = NoRecord
  <2>1. jobs'[j] = [NoRecord EXCEPT !.early = {}]
    BY <1>2
  <2> QED BY <2>1 DEF NoRecord
<1>3. JobsOK'
  BY <1>1 DEF JobsOK, Kept, Identity
<1> QED BY <1>1, <1>2, <1>3

LEMMA FinishedShape ==
  ASSUME JobsOK, NEW j \in Jobs, NEW s \in {"completed", "failed"}, jobs' = Finished(j, s)
  PROVE  /\ JobsOK' /\ \A i \in Jobs \ {j} : jobs'[i] = jobs[i]
         /\ jobs'[j].status = s /\ jobs'[j].previous = jobs[j].previous
         /\ jobs'[j].holder = Nobody /\ jobs'[j].live = FALSE
         /\ jobs'[j].recent = (s = "completed")
<1> DEFINE e == [NoRecord EXCEPT !.status = s, !.previous = jobs[j].previous,
                                 !.recent = s = "completed"]
<1>1. /\ e \in Records /\ e.status = s /\ e.previous = jobs[j].previous
      /\ e.holder = Nobody /\ e.live = FALSE /\ e.recent = (s = "completed")
  BY NoRecordShape DEF Records, JobsOK
<1>2. jobs' = [jobs EXCEPT ![j] = e]
  BY DEF Finished
<1> HIDE DEF e
<1> QED BY <1>1, <1>2, OneJob

LEMMA InsertShape ==
  ASSUME Typed, NEW j \in Jobs, Insert(j)
  PROVE  /\ JobsOK' /\ \A i \in Jobs \ {j} : jobs'[i] = jobs[i]
         /\ jobs'[j].status = "running" /\ jobs'[j].previous = selection
         /\ jobs'[j].since = document.version /\ jobs'[j].recent = FALSE
         /\ jobs'[j].holder = Nobody /\ jobs'[j].live = TRUE
         /\ jobs'[j].early = Pods \cup {w \in Writers : writer[w].pc = "passed"}
<1> DEFINE new == Pods \cup {w \in Writers : writer[w].pc = "passed"}
           e == [NoRecord EXCEPT !.status = "running", !.previous = selection, !.live = TRUE,
                                 !.since = document.version, !.early = new]
<1>1. selection \in Generations /\ document.version \in Versions \cup {Absent}
  BY DEF Typed, SelectionOK, DocumentOK, Documents
<1>2. new \in SUBSET (Pods \cup Writers)
  OBVIOUS
<1>3. /\ e \in Records /\ e.status = "running" /\ e.previous = selection
      /\ e.since = document.version /\ e.holder = Nobody /\ e.live = TRUE /\ e.early = new
      /\ e.recent = FALSE
  BY <1>1, <1>2, NoRecordShape DEF Records
<1>4. jobs' = [jobs EXCEPT ![j] = e]
  BY DEF Insert
<1> HIDE DEF e
<1> QED BY <1>3, <1>4, OneJob DEF Typed

LEMMA ClaimShape ==
  ASSUME JobsOK, NEW p \in Pods, NEW j \in Jobs, Claim(p, j)
  PROVE  /\ JobsOK' /\ \A i \in Jobs \ {j} : jobs'[i] = jobs[i]
         /\ Identity(j) /\ jobs'[j].holder = p /\ jobs'[j].live = TRUE
         /\ jobs'[j].recent = jobs[j].recent /\ jobs'[j].early = jobs[j].early
<1> DEFINE n == IF jobs[j].attempts > MaxAttempts THEN jobs[j].attempts ELSE jobs[j].attempts + 1
           e == [jobs[j] EXCEPT !.holder = p, !.live = TRUE, !.attempts = n]
<1>1. jobs[j] \in Records /\ jobs[j].status = "running"
  BY DEF JobsOK, Claim, Claimable, Running
<1>2. n \in 0..MaxAttempts + 1
  BY <1>1, BoundsAssumption DEF Records
<1>3. jobs' = [jobs EXCEPT ![j] = e]
  BY <1>1 DEF Claim, JobsOK, Records
<1> HIDE DEF n
<1>4. /\ e \in Records /\ e.holder = p /\ e.live = TRUE /\ e.status = jobs[j].status
      /\ e.previous = jobs[j].previous /\ e.since = jobs[j].since
      /\ e.recent = jobs[j].recent /\ e.early = jobs[j].early
  BY <1>1, <1>2 DEF Records
<1> HIDE DEF e
<1> QED BY <1>1, <1>3, <1>4, OneJob DEF Identity

LEMMA ExpireShape ==
  ASSUME JobsOK, NEW j \in Jobs, Expire(j)
  PROVE  /\ JobsOK' /\ \A i \in Jobs \ {j} : jobs'[i] = jobs[i]
         /\ Identity(j) /\ jobs'[j].holder = jobs[j].holder /\ jobs'[j].live = FALSE
         /\ jobs'[j].recent = jobs[j].recent /\ jobs'[j].early = jobs[j].early
<1> DEFINE e == [jobs[j] EXCEPT !.live = FALSE]
<1>1. jobs[j] \in Records /\ jobs[j].status = "running"
  BY DEF JobsOK, Expire, Active, Running
<1>2. jobs' = [jobs EXCEPT ![j] = e]
  BY <1>1 DEF Expire
<1>3. /\ e \in Records /\ e.holder = jobs[j].holder /\ e.live = FALSE /\ e.status = jobs[j].status
      /\ e.previous = jobs[j].previous /\ e.since = jobs[j].since
      /\ e.recent = jobs[j].recent /\ e.early = jobs[j].early
  BY <1>1 DEF Records
<1> HIDE DEF e
<1> QED BY <1>1, <1>2, <1>3, OneJob DEF Identity

LEMMA RetentionShape ==
  ASSUME JobsOK, NEW j \in Jobs, RetentionEnds(j)
  PROVE  /\ JobsOK' /\ \A i \in Jobs \ {j} : jobs'[i] = jobs[i]
         /\ Identity(j) /\ jobs'[j].holder = jobs[j].holder /\ jobs'[j].live = jobs[j].live
         /\ jobs'[j].recent = FALSE /\ jobs'[j].early = jobs[j].early
<1> DEFINE e == [jobs[j] EXCEPT !.recent = FALSE]
<1>1. jobs[j] \in Records
  BY DEF JobsOK
<1>2. jobs' = [jobs EXCEPT ![j] = e]
  BY DEF RetentionEnds
<1>3. /\ e \in Records /\ e.holder = jobs[j].holder /\ e.live = jobs[j].live /\ e.status = jobs[j].status
      /\ e.previous = jobs[j].previous /\ e.since = jobs[j].since
      /\ e.recent = FALSE /\ e.early = jobs[j].early
  BY <1>1 DEF Records
<1>4. e.live \/ e.holder # Nobody => e.status = "running"
  BY <1>3 DEF JobsOK
<1> HIDE DEF e
<1> QED BY <1>2, <1>3, <1>4, OneJob DEF Identity

(* What a step does to a job: who ends it owned it. *)
Ends(p, j) ==
  /\ Owns(p) /\ Mine(p) = j /\ executor'[p].step = "idle" /\ selection' = selection
  /\ jobs'[j].previous = jobs[j].previous
  /\ jobs'[j].holder = Nobody /\ jobs'[j].live = FALSE
  /\ \/ Complete(p) /\ jobs'[j].status = "completed" /\ jobs'[j].recent
     \/ /\ jobs'[j].status = "failed"
        /\ executor[p].step \in {"load", "embed", "wait", "catchup", "commit"}
        /\ executor[p].step = "load" => selection # j
JobStep(j) ==
  \/ Kept(j)
  \/ /\ Insert(j) /\ jobs[j] = NoRecord /\ jobs'[j].status = "running"
     /\ jobs'[j].previous = selection /\ jobs'[j].since = document.version
     /\ jobs'[j].holder = Nobody
  \/ \E p \in Pods : /\ Claim(p, j) /\ Identity(j) /\ jobs'[j].holder = p /\ jobs'[j].live
                     /\ jobs'[j].recent = jobs[j].recent
  \/ \E p \in Pods : Ends(p, j)
  \/ /\ Expire(j) /\ Identity(j) /\ jobs'[j].holder = jobs[j].holder /\ jobs'[j].live = FALSE
     /\ jobs'[j].recent = jobs[j].recent
  \/ /\ RetentionEnds(j) /\ Identity(j) /\ jobs'[j].holder = jobs[j].holder
     /\ jobs'[j].live = jobs[j].live /\ jobs'[j].recent = FALSE
JobsFit == JobsOK' /\ AskedOK' /\ \A j \in Jobs : JobStep(j)

LEMMA JobsSame ==
  ASSUME Typed, UNCHANGED <<jobs, asked>>
  PROVE  JobsFit
BY DEF Typed, JobsOK, AskedOK, JobsFit, JobStep, Kept, Identity

(* A job changes that was inserted before. *)
LEMMA OneJobStep ==
  ASSUME Typed, NEW j \in Jobs, jobs[j].status # "none", UNCHANGED asked, JobsOK', JobStep(j),
         \A i \in Jobs \ {j} : jobs'[i] = jobs[i]
  PROVE  JobsFit
<1>1. ASSUME NEW i \in Jobs \ {j} PROVE JobStep(i)
  BY <1>1 DEF JobStep, Kept, Identity
<1>2. AskedOK'
  BY NoRecordShape DEF Typed, AskedOK
<1> QED BY <1>1, <1>2 DEF JobsFit

LEMMA EarlyFits ==
  ASSUME Typed, NEW E \in [Jobs -> SUBSET (Pods \cup Writers)], UNCHANGED asked,
         \A j \in Jobs : jobs[j].early = {} => E[j] = {},
         jobs' = [j \in Jobs |-> [jobs[j] EXCEPT !.early = E[j]]]
  PROVE  JobsFit
<1>1. /\ JobsOK' /\ \A j \in Jobs : Kept(j)
      /\ \A j \in Jobs : jobs[j] = NoRecord /\ E[j] = {} => jobs'[j] = NoRecord
  BY EarlyShape DEF Typed
<1>2. AskedOK'
  BY <1>1, NoRecordShape DEF Typed, AskedOK
<1> QED BY <1>1, <1>2 DEF JobsFit, JobStep

LEMMA EarlyTyped ==
  ASSUME JobsOK
  PROVE  \A j \in Jobs : jobs[j].early \in SUBSET (Pods \cup Writers)
BY DEF JobsOK, Records

LEMMA HeardFits ==
  ASSUME Typed, NEW p \in Pods, UNCHANGED asked, jobs' = Heard(p)
  PROVE  JobsFit /\ \A j \in Jobs : jobs'[j].early = jobs[j].early \ {p}
<1> DEFINE E == [j \in Jobs |-> jobs[j].early \ {p}]
<1>1. E \in [Jobs -> SUBSET (Pods \cup Writers)] /\ \A j \in Jobs : E[j] = jobs[j].early \ {p}
  BY EarlyTyped DEF Typed
<1>2. jobs' = [j \in Jobs |-> [jobs[j] EXCEPT !.early = E[j]]]
  BY DEF Heard
<1> HIDE DEF E
<1> QED BY <1>1, <1>2, EarlyFits, EarlyShape DEF Typed

LEMMA EndedFits ==
  ASSUME Typed, NEW w \in Writers, UNCHANGED asked, jobs' = Ended(w)
  PROVE  JobsFit /\ \A j \in Jobs : jobs'[j].early = jobs[j].early \ {w}
<1> DEFINE E == [j \in Jobs |-> jobs[j].early \ {w}]
<1>1. E \in [Jobs -> SUBSET (Pods \cup Writers)] /\ \A j \in Jobs : E[j] = jobs[j].early \ {w}
  BY EarlyTyped DEF Typed
<1>2. jobs' = [j \in Jobs |-> [jobs[j] EXCEPT !.early = E[j]]]
  BY DEF Ended
<1> HIDE DEF E
<1> QED BY <1>1, <1>2, EarlyFits, EarlyShape DEF Typed

LEMMA CrashFits ==
  ASSUME Typed, NEW p \in Pods, Crash(p)
  PROVE  JobsFit /\ \A j \in Jobs : jobs'[j].early = jobs[j].early \ {w \in Writers : writer[w].pod = p}
<1> DEFINE gone == {w \in Writers : writer[w].pod = p}
           E == [j \in Jobs |-> jobs[j].early \ gone]
<1>1. E \in [Jobs -> SUBSET (Pods \cup Writers)] /\ \A j \in Jobs : E[j] = jobs[j].early \ gone
  BY EarlyTyped DEF Typed
<1>2. jobs' = [j \in Jobs |-> [jobs[j] EXCEPT !.early = E[j]]] /\ asked' = asked
  BY DEF Crash
<1> HIDE DEF E
<1> QED BY <1>1, <1>2, EarlyFits, EarlyShape DEF Typed

LEMMA PassFits ==
  ASSUME Typed, NEW w \in Writers, NEW p \in Pods, Pass(w, p)
  PROVE  JobsFit /\ \A j \in Jobs :
           jobs'[j].early = IF p \in jobs[j].early THEN jobs[j].early \cup {w} ELSE jobs[j].early
<1> DEFINE E == [j \in Jobs |-> IF p \in jobs[j].early THEN jobs[j].early \cup {w} ELSE jobs[j].early]
<1>1. E \in [Jobs -> SUBSET (Pods \cup Writers)]
  BY EarlyTyped DEF Typed
<1>2. jobs' = [j \in Jobs |-> [jobs[j] EXCEPT !.early = E[j]]] /\ asked' = asked
  BY DEF Pass
<1>3. \A j \in Jobs :
        E[j] = IF p \in jobs[j].early THEN jobs[j].early \cup {w} ELSE jobs[j].early
  OBVIOUS
<1> HIDE DEF E
<1> QED BY <1>1, <1>2, <1>3, EarlyFits, EarlyShape DEF Typed

LEMMA FailFits ==
  ASSUME Typed, NEW p \in Pods, Owns(p), Fail(p), UNCHANGED <<asked, selection>>,
         executor[p].step \in {"load", "embed", "wait", "catchup", "commit"},
         executor[p].step = "load" => selection # Mine(p)
  PROVE  JobsFit
<1>1. Mine(p) \in Jobs /\ jobs[Mine(p)].status = "running"
  BY MineIsJob, OwnsMeans DEF Typed
<1>2. /\ JobsOK' /\ \A i \in Jobs \ {Mine(p)} : jobs'[i] = jobs[i]
      /\ jobs'[Mine(p)].status = "failed" /\ jobs'[Mine(p)].previous = jobs[Mine(p)].previous
      /\ jobs'[Mine(p)].holder = Nobody /\ jobs'[Mine(p)].live = FALSE
  BY <1>1, FinishedShape DEF Fail, Typed
<1>3. executor'[p].step = "idle"
  BY StopsFits DEF Fail, Typed, Moves, NoExecution
<1>4. JobStep(Mine(p))
  BY <1>2, <1>3 DEF JobStep, Ends
<1> QED BY <1>1, <1>2, <1>4, OneJobStep

LEMMA JobsStep ==
  ASSUME Typed, [Next]_vars
  PROVE  JobsFit
<1>1. ASSUME NEW j \in Jobs, Ask(j) PROVE JobsFit
  <2>1. JobsOK' /\ \A i \in Jobs : Kept(i)
    BY <1>1 DEF Ask, Typed, JobsOK, Kept, Identity
  <2>2. AskedOK'
    BY <1>1 DEF Ask, Typed, AskedOK
  <2> QED BY <2>1, <2>2 DEF JobsFit, JobStep
<1>2. ASSUME NEW j \in Jobs, Insert(j) PROVE JobsFit
  <2>1. /\ JobsOK' /\ \A i \in Jobs \ {j} : jobs'[i] = jobs[i]
        /\ jobs'[j].status = "running" /\ jobs'[j].previous = selection
        /\ jobs'[j].since = document.version /\ jobs'[j].holder = Nobody
    BY <1>2, InsertShape
  <2>2. jobs[j] = NoRecord /\ asked' = asked \ {j}
    BY <1>2 DEF Insert, Typed, AskedOK
  <2>3. AskedOK'
    BY <2>1, <2>2 DEF Typed, AskedOK
  <2>4. JobStep(j)
    BY <1>2, <2>1, <2>2 DEF JobStep
  <2>5. \A i \in Jobs \ {j} : JobStep(i)
    BY <2>1 DEF JobStep, Kept, Identity
  <2> QED BY <2>1, <2>3, <2>4, <2>5 DEF JobsFit
<1>3. ASSUME NEW j \in Jobs, Expire(j) PROVE JobsFit
  <2>1. JobsOK' /\ (\A i \in Jobs \ {j} : jobs'[i] = jobs[i]) /\ JobStep(j)
    BY <1>3, ExpireShape DEF Typed, JobStep
  <2>2. jobs[j].status # "none" /\ asked' = asked
    BY <1>3 DEF Expire, Active, Running, Claimable
  <2> QED BY <2>1, <2>2, OneJobStep
<1>4. ASSUME NEW j \in Jobs, RetentionEnds(j) PROVE JobsFit
  <2>1. JobsOK' /\ (\A i \in Jobs \ {j} : jobs'[i] = jobs[i]) /\ JobStep(j)
    BY <1>4, RetentionShape DEF Typed, JobStep
  <2>2. AskedOK'
    BY <1>4, <2>1, NoRecordShape DEF RetentionEnds, Typed, AskedOK
  <2>3. \A i \in Jobs \ {j} : JobStep(i)
    BY <2>1 DEF JobStep, Kept, Identity
  <2> QED BY <2>1, <2>2, <2>3 DEF JobsFit
<1>5. ASSUME NEW p \in Pods, NEW j \in Jobs, Claim(p, j) PROVE JobsFit
  <2>1. JobsOK' /\ (\A i \in Jobs \ {j} : jobs'[i] = jobs[i]) /\ JobStep(j)
    BY <1>5, ClaimShape DEF Typed, JobStep
  <2>2. jobs[j].status # "none" /\ asked' = asked
    BY <1>5 DEF Claim, Active, Running, Claimable
  <2> QED BY <2>1, <2>2, OneJobStep
<1>6. ASSUME NEW p \in Pods, Poll(p) PROVE JobsFit
  BY <1>6, HeardFits DEF Poll
<1>7. ASSUME NEW p \in Pods, PollFails(p) PROVE JobsFit
  BY <1>7, HeardFits DEF PollFails
<1>8. ASSUME NEW p \in Pods, Load(p) PROVE JobsFit
  <2>1. CASE UNCHANGED jobs
    BY <1>8, <2>1, JobsSame DEF Load
  <2>2. CASE Fail(p) /\ selection' = selection /\ selection # Mine(p)
    <3>1. Owns(p) /\ asked' = asked /\ executor[p].step \in {"load"}
      BY <1>8, <2>2 DEF Load, At
    <3> QED BY <2>2, <3>1, FailFits
  <2> QED BY <1>8, <2>1, <2>2 DEF Load
<1>9. ASSUME NEW p \in Pods, Prepare(p) PROVE JobsFit
  BY <1>9, JobsSame
  DEF Prepare
<1>10. ASSUME NEW p \in Pods, Sweep(p) PROVE JobsFit
  BY <1>10, JobsSame
  DEF Sweep
<1>11. ASSUME NEW p \in Pods, Embed(p) PROVE JobsFit
  BY <1>11, JobsSame
  DEF Embed
<1>12. ASSUME NEW p \in Pods, AwaitWriters(p) PROVE JobsFit
  <2>1. CASE UNCHANGED jobs
    BY <1>12, <2>1, JobsSame DEF AwaitWriters
  <2>2. CASE Fail(p) /\ selection' = selection
    <3>1. Owns(p) /\ asked' = asked /\ executor[p].step \in {"wait"}
      BY <1>12, <2>2 DEF AwaitWriters, At
    <3> QED BY <2>2, <3>1, FailFits
  <2> QED BY <1>12, <2>1, <2>2 DEF AwaitWriters
<1>13. ASSUME NEW p \in Pods, CatchUp(p) PROVE JobsFit
  BY <1>13, JobsSame
  DEF CatchUp
<1>14. ASSUME NEW p \in Pods, DeleteRemoved(p) PROVE JobsFit
  BY <1>14, JobsSame
  DEF DeleteRemoved
<1>15. ASSUME NEW p \in Pods, CommitGeneration(p) PROVE JobsFit
  <2>1. CASE UNCHANGED jobs
    BY <1>15, <2>1, JobsSame DEF CommitGeneration
  <2>2. CASE Fail(p) /\ selection' = selection
    <3>1. Owns(p) /\ asked' = asked /\ executor[p].step \in {"commit"}
      BY <1>15, <2>2 DEF CommitGeneration, At
    <3> QED BY <2>2, <3>1, FailFits
  <2> QED BY <1>15, <2>1, <2>2 DEF CommitGeneration
<1>16. ASSUME NEW p \in Pods, Complete(p) PROVE JobsFit
  <2>1. Mine(p) \in Jobs /\ jobs[Mine(p)].status = "running" /\ Owns(p)
    BY <1>16, MineIsJob, OwnsMeans DEF Typed, Complete
  <2>2. /\ JobsOK' /\ \A i \in Jobs \ {Mine(p)} : jobs'[i] = jobs[i]
        /\ jobs'[Mine(p)].status = "completed" /\ jobs'[Mine(p)].previous = jobs[Mine(p)].previous
        /\ jobs'[Mine(p)].holder = Nobody /\ jobs'[Mine(p)].live = FALSE
        /\ jobs'[Mine(p)].recent
    BY <1>16, <2>1, FinishedShape DEF Complete, Typed
  <2>3. executor'[p].step = "idle" /\ asked' = asked /\ selection' = selection
    BY <1>16, StopsFits DEF Complete, Typed, Moves, NoExecution
  <2>4. JobStep(Mine(p))
    BY <1>16, <2>1, <2>2, <2>3 DEF JobStep, Ends
  <2> QED BY <2>1, <2>2, <2>3, <2>4, OneJobStep
<1>17. ASSUME NEW p \in Pods, LeaseLost(p) PROVE JobsFit
  BY <1>17, JobsSame
  DEF LeaseLost
<1>18. ASSUME NEW p \in Pods, SweepFails(p) PROVE JobsFit
  <2>1. CASE UNCHANGED jobs
    BY <1>18, <2>1, JobsSame DEF SweepFails
  <2>2. CASE Fail(p) /\ executor[p].step \in {"embed", "catchup"}
    BY <1>18, <2>2, FailFits DEF SweepFails
  <2> QED BY <1>18, <2>1, <2>2 DEF SweepFails
<1>19. ASSUME NEW p \in Pods, Crash(p) PROVE JobsFit
  BY <1>19, CrashFits
<1>20. ASSUME NEW p \in Pods, GcRead(p) \/ Gc(p) \/ GcFails(p) PROVE JobsFit
  BY <1>20, JobsSame, GcKeeps
<1>21. ASSUME NEW w \in Writers, Commit(w) PROVE JobsFit
  BY <1>21, EndedFits DEF Commit
<1>22. ASSUME NEW w \in Writers, Resolve(w) PROVE JobsFit
  BY <1>22, JobsSame
  DEF Resolve
<1>23. ASSUME NEW w \in Writers, Land(w) PROVE JobsFit
  BY <1>23, JobsSame
  DEF Land
<1>24. ASSUME NEW w \in Writers, SyncStalls(w) PROVE JobsFit
  BY <1>24, JobsSame
  DEF SyncStalls
<1>25. ASSUME NEW w \in Writers, NEW p \in Pods, Pass(w, p) PROVE JobsFit
  BY <1>25, PassFits
<1>26. ASSUME NEW w \in Writers, NEW p \in Pods, Federate(w, p) PROVE JobsFit
  BY <1>26, JobsSame
  DEF Federate
<1>27. ASSUME NEW w \in Writers, NEW p \in Pods, Reconcile(w, p) PROVE JobsFit
  BY <1>27, JobsSame
  DEF Reconcile
<1>28. CASE UNCHANGED vars
  BY <1>28, JobsSame
  DEF vars
<1> QED BY <1>1, <1>2, <1>3, <1>4, <1>5, <1>6, <1>7, <1>8, <1>9, <1>10, <1>11, <1>12,
    <1>13, <1>14, <1>15, <1>16, <1>17, <1>18, <1>19, <1>20, <1>21, <1>22, <1>23, <1>24,
    <1>25, <1>26, <1>27, <1>28
  DEF Next, Execute

-----------------------------------------------------------------------------
(* Ownership *)

LEMMA OneOwner ==
  ASSUME NEW p \in Pods, NEW q \in Pods, Owns(p), Owns(q), Mine(p) = Mine(q)
  PROVE  p = q
BY OwnsMeans

(* A lease is not gained but by a claim, with which a run starts. *)
LEMMA OwnsStep ==
  ASSUME Typed, [Next]_vars, NEW p \in Pods, Owns(p)', executor'[p].step # "load"
  PROVE  Owns(p) /\ executor'[p].job = executor[p].job
<1>1. ExecutorOK' /\ Edge(p)
  BY ExecutorStep DEF ExecutorFits
<1>2. /\ executor'[p].job # NoJob /\ jobs'[executor'[p].job].status = "running"
      /\ jobs'[executor'[p].job].live /\ jobs'[executor'[p].job].holder = p
  BY DEF Owns, Active, Running
<1>3. executor'[p].step # "idle" /\ executor'[p].job \in Jobs
  BY <1>1, <1>2 DEF ExecutorOK, Executors
<1>4. executor'[p].job = executor[p].job
  BY <1>1, <1>3 DEF Edge
<1> DEFINE j == executor[p].job
<1>5. JobStep(j)
  BY <1>3, <1>4, JobsStep DEF JobsFit
<1>6. ~ \E q \in Pods : Claim(q, j) /\ jobs'[j].holder = q
  <2>1. SUFFICES ASSUME Claim(p, j) PROVE FALSE
    BY <1>2, <1>4
  <2>2. executor'[p].step = "load"
    BY <1>3, <1>4, <2>1, ClaimFits DEF Typed
  <2> QED BY <2>2
<1>7. jobs[j].status = "running" /\ jobs[j].live /\ jobs[j].holder = p
  BY <1>2, <1>4, <1>5, <1>6, Names DEF JobStep, Kept, Identity, Ends
<1> QED BY <1>2, <1>4, <1>7, OwnsMeans DEF Mine

-----------------------------------------------------------------------------
(* What the steps do to the rest of the state *)

VectorStep(g) ==
  \/ vectors'[g] = vectors[g]
  \/ \E p \in Pods :
       /\ Mine(p) = g
       /\ \/ Prepare(p) /\ vectors'[g] = Absent
          \/ Embed(p) /\ vectors'[g] = executor[p].seen
          \/ /\ CatchUp(p) /\ document.version \notin {Absent, jobs[g].since}
             /\ vectors'[g] = document.version
          \/ DeleteRemoved(p) /\ document.version = Absent /\ vectors'[g] = Absent
  \/ \E w \in Writers : Land(w) /\ writer[w].into = g /\ vectors'[g] = writer[w].seen
  \/ \E p \in Pods : GcDrop(p) /\ collector[p].victim = g /\ vectors'[g] = Missing
VectorsFit == VectorsOK' /\ \A g \in Generations : VectorStep(g)

LEMMA VectorsSame ==
  ASSUME VectorsOK, UNCHANGED vectors
  PROVE  VectorsFit
BY DEF VectorsFit, VectorsOK, VectorStep

LEMMA OneVector ==
  ASSUME VectorsOK, NEW g \in Generations, NEW v \in Versions \cup {Absent, Missing},
         vectors' = [vectors EXCEPT ![g] = v]
  PROVE  /\ VectorsOK' /\ vectors'[g] = v
         /\ \A h \in Generations \ {g} : VectorStep(h)
BY DEF VectorsOK, VectorStep

LEMMA VectorsStep ==
  ASSUME Typed, [Next]_vars
  PROVE  VectorsFit
<1>0. VectorsOK /\ ExecutorOK /\ document.version \in Versions \cup {Absent} /\ WriterOK
  BY DEF Typed, DocumentOK, Documents
<1>1. ASSUME NEW j \in Jobs, Ask(j) PROVE VectorsFit
  BY <1>1, <1>0, VectorsSame
  DEF Ask
<1>2. ASSUME NEW j \in Jobs, Insert(j) PROVE VectorsFit
  BY <1>2, <1>0, VectorsSame
  DEF Insert
<1>3. ASSUME NEW j \in Jobs, Expire(j) PROVE VectorsFit
  BY <1>3, <1>0, VectorsSame
  DEF Expire
<1>4. ASSUME NEW j \in Jobs, RetentionEnds(j) PROVE VectorsFit
  BY <1>4, <1>0, VectorsSame
  DEF RetentionEnds
<1>5. ASSUME NEW p \in Pods, NEW j \in Jobs, Claim(p, j) PROVE VectorsFit
  BY <1>5, <1>0, VectorsSame
  DEF Claim
<1>6. ASSUME NEW p \in Pods, Poll(p) PROVE VectorsFit
  BY <1>6, <1>0, VectorsSame
  DEF Poll
<1>7. ASSUME NEW p \in Pods, PollFails(p) PROVE VectorsFit
  BY <1>7, <1>0, VectorsSame
  DEF PollFails
<1>8. ASSUME NEW p \in Pods, Load(p) PROVE VectorsFit
  BY <1>8, <1>0, VectorsSame
  DEF Load
<1>9. ASSUME NEW p \in Pods, Prepare(p) PROVE VectorsFit
  <2>1. Mine(p) \in Generations /\ Absent \in Versions \cup {Absent, Missing}
    BY <1>0, <1>9, MineIsJob, Names, StepsOnly DEF Prepare, At
  <2>2. vectors' = [vectors EXCEPT ![Mine(p)] = Absent]
    BY <1>9 DEF Prepare
  <2>3. VectorsOK' /\ vectors'[Mine(p)] = Absent /\ \A h \in Generations \ {Mine(p)} : VectorStep(h)
    BY <1>0, <2>1, <2>2, OneVector
  <2>4. VectorStep(Mine(p))
    BY <1>9, <2>3 DEF VectorStep
  <2> QED BY <2>3, <2>4 DEF VectorsFit
<1>10. ASSUME NEW p \in Pods, Sweep(p) PROVE VectorsFit
  BY <1>10, <1>0, VectorsSame
  DEF Sweep
<1>11. ASSUME NEW p \in Pods, Embed(p) PROVE VectorsFit
  <2>1. Mine(p) \in Generations /\ executor[p].seen \in Versions \cup {Absent, Missing}
    BY <1>0, <1>11, MineIsJob, Names, StepsOnly DEF Embed, At
  <2>2. vectors' = [vectors EXCEPT ![Mine(p)] = executor[p].seen]
    BY <1>11 DEF Embed
  <2>3. VectorsOK' /\ vectors'[Mine(p)] = executor[p].seen /\ \A h \in Generations \ {Mine(p)} : VectorStep(h)
    BY <1>0, <2>1, <2>2, OneVector
  <2>4. VectorStep(Mine(p))
    BY <1>11, <2>3 DEF VectorStep
  <2> QED BY <2>3, <2>4 DEF VectorsFit
<1>12. ASSUME NEW p \in Pods, AwaitWriters(p) PROVE VectorsFit
  BY <1>12, <1>0, VectorsSame
  DEF AwaitWriters
<1>13. ASSUME NEW p \in Pods, CatchUp(p) PROVE VectorsFit
  <2>1. CASE UNCHANGED vectors
    BY <1>0, <2>1, VectorsSame
  <2>2. CASE document.version \notin {Absent, jobs[Mine(p)].since} /\ vectors' = [vectors EXCEPT ![Mine(p)] = document.version]
    <3>1. Mine(p) \in Generations /\ document.version \in Versions \cup {Absent, Missing}
      BY <1>0, <1>13, MineIsJob, Names DEF CatchUp, At
    <3>2. VectorsOK' /\ vectors'[Mine(p)] = document.version /\ \A h \in Generations \ {Mine(p)} : VectorStep(h)
      BY <1>0, <2>2, <3>1, OneVector
    <3>3. VectorStep(Mine(p))
      BY <1>13, <2>2, <3>2 DEF VectorStep
    <3> QED BY <3>2, <3>3 DEF VectorsFit
  <2> QED BY <1>13, <2>1, <2>2 DEF CatchUp
<1>14. ASSUME NEW p \in Pods, DeleteRemoved(p) PROVE VectorsFit
  <2>1. CASE UNCHANGED vectors
    BY <1>0, <2>1, VectorsSame
  <2>2. CASE document.version = Absent /\ vectors' = [vectors EXCEPT ![Mine(p)] = Absent]
    <3>1. Mine(p) \in Generations /\ Absent \in Versions \cup {Absent, Missing}
      BY <1>0, <1>14, MineIsJob, Names DEF DeleteRemoved, At
    <3>2. VectorsOK' /\ vectors'[Mine(p)] = Absent /\ \A h \in Generations \ {Mine(p)} : VectorStep(h)
      BY <1>0, <2>2, <3>1, OneVector
    <3>3. VectorStep(Mine(p))
      BY <1>14, <2>2, <3>2 DEF VectorStep
    <3> QED BY <3>2, <3>3 DEF VectorsFit
  <2> QED BY <1>14, <2>1, <2>2 DEF DeleteRemoved
<1>15. ASSUME NEW p \in Pods, CommitGeneration(p) PROVE VectorsFit
  BY <1>15, <1>0, VectorsSame
  DEF CommitGeneration
<1>16. ASSUME NEW p \in Pods, Complete(p) PROVE VectorsFit
  BY <1>16, <1>0, VectorsSame
  DEF Complete
<1>17. ASSUME NEW p \in Pods, LeaseLost(p) PROVE VectorsFit
  BY <1>17, <1>0, VectorsSame
  DEF LeaseLost
<1>18. ASSUME NEW p \in Pods, SweepFails(p) PROVE VectorsFit
  BY <1>18, <1>0, VectorsSame
  DEF SweepFails
<1>19. ASSUME NEW p \in Pods, Crash(p) PROVE VectorsFit
  BY <1>19, <1>0, VectorsSame
  DEF Crash
<1>20. ASSUME NEW p \in Pods, GcRead(p) \/ Gc(p) \/ GcFails(p) PROVE VectorsFit
  <2>1. CASE GcDrop(p) /\ vectors' = [vectors EXCEPT ![collector[p].victim] = Missing]
    <3>1. PICK g \in Generations : g = collector[p].victim
      BY <2>1, Names DEF GcDrop, Typed, CollectorOK
    <3>2. VectorsOK' /\ vectors'[g] = Missing /\ \A h \in Generations \ {g} : VectorStep(h)
      BY <1>0, <2>1, <3>1, OneVector
    <3>3. VectorStep(g)
      BY <2>1, <3>1, <3>2 DEF VectorStep
    <3> QED BY <3>2, <3>3 DEF VectorsFit
  <2> QED BY <1>20, <1>0, <2>1, GcKeeps, VectorsSame
<1>21. ASSUME NEW w \in Writers, Commit(w) PROVE VectorsFit
  BY <1>21, <1>0, VectorsSame
  DEF Commit
<1>22. ASSUME NEW w \in Writers, Resolve(w) PROVE VectorsFit
  BY <1>22, <1>0, VectorsSame
  DEF Resolve
<1>23. ASSUME NEW w \in Writers, Land(w) PROVE VectorsFit
  <2>1. writer[w].into \in Generations /\ writer[w].seen \in Versions \cup {Absent, Missing}
    BY <1>0 DEF WriterOK, WriterStates
  <2>2. vectors' = [vectors EXCEPT ![writer[w].into] = writer[w].seen]
    BY <1>23 DEF Land
  <2>3. /\ VectorsOK' /\ vectors'[writer[w].into] = writer[w].seen
        /\ \A h \in Generations \ {writer[w].into} : VectorStep(h)
    BY <1>0, <2>1, <2>2, OneVector
  <2>4. VectorStep(writer[w].into)
    BY <1>23, <2>3 DEF VectorStep
  <2> QED BY <2>3, <2>4 DEF VectorsFit
<1>24. ASSUME NEW w \in Writers, SyncStalls(w) PROVE VectorsFit
  BY <1>24, <1>0, VectorsSame
  DEF SyncStalls
<1>25. ASSUME NEW w \in Writers, NEW p \in Pods, Pass(w, p) PROVE VectorsFit
  BY <1>25, <1>0, VectorsSame
  DEF Pass
<1>26. ASSUME NEW w \in Writers, NEW p \in Pods, Federate(w, p) PROVE VectorsFit
  BY <1>26, <1>0, VectorsSame
  DEF Federate
<1>27. ASSUME NEW w \in Writers, NEW p \in Pods, Reconcile(w, p) PROVE VectorsFit
  BY <1>27, <1>0, VectorsSame
  DEF Reconcile
<1>28. CASE UNCHANGED vars
  BY <1>28, <1>0, VectorsSame
  DEF vars
<1> QED BY <1>1, <1>2, <1>3, <1>4, <1>5, <1>6, <1>7, <1>8, <1>9, <1>10, <1>11, <1>12,
    <1>13, <1>14, <1>15, <1>16, <1>17, <1>18, <1>19, <1>20, <1>21, <1>22, <1>23, <1>24,
    <1>25, <1>26, <1>27, <1>28
  DEF Next, Execute

SelectionFits ==
  /\ SelectionOK'
  /\ \/ selection' = selection
     \/ \E p \in Pods : /\ CommitGeneration(p) /\ Switches(Mine(p)) /\ selection' = Mine(p)
                        /\ jobs' = jobs

LEMMA SelectionStep ==
  ASSUME Typed, [Next]_vars
  PROVE  SelectionFits
<1>0. ASSUME UNCHANGED selection PROVE SelectionFits
  BY <1>0 DEF SelectionFits, Typed, SelectionOK
<1>1. ASSUME NEW j \in Jobs, Ask(j) PROVE SelectionFits
  BY <1>1, <1>0
  DEF Ask
<1>2. ASSUME NEW j \in Jobs, Insert(j) PROVE SelectionFits
  BY <1>2, <1>0
  DEF Insert
<1>3. ASSUME NEW j \in Jobs, Expire(j) PROVE SelectionFits
  BY <1>3, <1>0
  DEF Expire
<1>4. ASSUME NEW j \in Jobs, RetentionEnds(j) PROVE SelectionFits
  BY <1>4, <1>0
  DEF RetentionEnds
<1>5. ASSUME NEW p \in Pods, NEW j \in Jobs, Claim(p, j) PROVE SelectionFits
  BY <1>5, <1>0
  DEF Claim
<1>6. ASSUME NEW p \in Pods, Poll(p) PROVE SelectionFits
  BY <1>6, <1>0
  DEF Poll
<1>7. ASSUME NEW p \in Pods, PollFails(p) PROVE SelectionFits
  BY <1>7, <1>0
  DEF PollFails
<1>8. ASSUME NEW p \in Pods, Load(p) PROVE SelectionFits
  BY <1>8, <1>0
  DEF Load
<1>9. ASSUME NEW p \in Pods, Prepare(p) PROVE SelectionFits
  BY <1>9, <1>0
  DEF Prepare
<1>10. ASSUME NEW p \in Pods, Sweep(p) PROVE SelectionFits
  BY <1>10, <1>0
  DEF Sweep
<1>11. ASSUME NEW p \in Pods, Embed(p) PROVE SelectionFits
  BY <1>11, <1>0
  DEF Embed
<1>12. ASSUME NEW p \in Pods, AwaitWriters(p) PROVE SelectionFits
  BY <1>12, <1>0
  DEF AwaitWriters
<1>13. ASSUME NEW p \in Pods, CatchUp(p) PROVE SelectionFits
  BY <1>13, <1>0
  DEF CatchUp
<1>14. ASSUME NEW p \in Pods, DeleteRemoved(p) PROVE SelectionFits
  BY <1>14, <1>0
  DEF DeleteRemoved
<1>15. ASSUME NEW p \in Pods, CommitGeneration(p) PROVE SelectionFits
  <2>1. CASE Switches(Mine(p)) /\ selection' = Mine(p) /\ UNCHANGED jobs
    <3>1. Mine(p) \in Generations
      BY <1>15, MineIsJob, Names DEF CommitGeneration, Typed
    <3> QED BY <1>15, <2>1, <3>1 DEF SelectionFits, SelectionOK
  <2> QED BY <1>0, <1>15, <2>1 DEF CommitGeneration
<1>16. ASSUME NEW p \in Pods, Complete(p) PROVE SelectionFits
  BY <1>16, <1>0
  DEF Complete
<1>17. ASSUME NEW p \in Pods, LeaseLost(p) PROVE SelectionFits
  BY <1>17, <1>0
  DEF LeaseLost
<1>18. ASSUME NEW p \in Pods, SweepFails(p) PROVE SelectionFits
  BY <1>18, <1>0
  DEF SweepFails
<1>19. ASSUME NEW p \in Pods, Crash(p) PROVE SelectionFits
  BY <1>19, <1>0
  DEF Crash
<1>20. ASSUME NEW p \in Pods, GcRead(p) \/ Gc(p) \/ GcFails(p) PROVE SelectionFits
  BY <1>20, <1>0, GcKeeps
<1>21. ASSUME NEW w \in Writers, Commit(w) PROVE SelectionFits
  BY <1>21, <1>0
  DEF Commit
<1>22. ASSUME NEW w \in Writers, Resolve(w) PROVE SelectionFits
  BY <1>22, <1>0
  DEF Resolve
<1>23. ASSUME NEW w \in Writers, Land(w) PROVE SelectionFits
  BY <1>23, <1>0
  DEF Land
<1>24. ASSUME NEW w \in Writers, SyncStalls(w) PROVE SelectionFits
  BY <1>24, <1>0
  DEF SyncStalls
<1>25. ASSUME NEW w \in Writers, NEW p \in Pods, Pass(w, p) PROVE SelectionFits
  BY <1>25, <1>0
  DEF Pass
<1>26. ASSUME NEW w \in Writers, NEW p \in Pods, Federate(w, p) PROVE SelectionFits
  BY <1>26, <1>0
  DEF Federate
<1>27. ASSUME NEW w \in Writers, NEW p \in Pods, Reconcile(w, p) PROVE SelectionFits
  BY <1>27, <1>0
  DEF Reconcile
<1>28. CASE UNCHANGED vars
  BY <1>28, <1>0
  DEF vars
<1> QED BY <1>1, <1>2, <1>3, <1>4, <1>5, <1>6, <1>7, <1>8, <1>9, <1>10, <1>11, <1>12,
    <1>13, <1>14, <1>15, <1>16, <1>17, <1>18, <1>19, <1>20, <1>21, <1>22, <1>23, <1>24,
    <1>25, <1>26, <1>27, <1>28
  DEF Next, Execute

(* What a pod searches, and whether it lets calls pass. *)
PodStep(q) ==
  \/ pods'[q] = pods[q]
  \/ /\ Poll(q) /\ pods'[q].generation = selection /\ ~pods'[q].stale
     /\ pods'[q].active = \E j \in Jobs : Active(j)
  \/ PollFails(q) /\ pods'[q].generation = pods[q].generation /\ pods'[q].stale
  \/ Crash(q) /\ pods'[q].generation = selection /\ pods'[q].stale
PodsFit == PodsOK' /\ \A q \in Pods : PodStep(q)

LEMMA OnePod ==
  ASSUME PodsOK, NEW p \in Pods, NEW e \in PodRecords, pods' = [pods EXCEPT ![p] = e]
  PROVE  PodsOK' /\ pods'[p] = e /\ \A q \in Pods \ {p} : PodStep(q)
BY DEF PodsOK, PodStep

LEMMA PodsStep ==
  ASSUME Typed, [Next]_vars
  PROVE  PodsFit
<1>0. PodsOK /\ SelectionOK
  BY DEF Typed
<1>a. ASSUME UNCHANGED pods PROVE PodsFit
  BY <1>0, <1>a DEF PodsFit, PodStep, PodsOK
<1>1. ASSUME NEW j \in Jobs, Ask(j) PROVE PodsFit
  BY <1>1, <1>a
  DEF Ask
<1>2. ASSUME NEW j \in Jobs, Insert(j) PROVE PodsFit
  BY <1>2, <1>a
  DEF Insert
<1>3. ASSUME NEW j \in Jobs, Expire(j) PROVE PodsFit
  BY <1>3, <1>a
  DEF Expire
<1>4. ASSUME NEW j \in Jobs, RetentionEnds(j) PROVE PodsFit
  BY <1>4, <1>a
  DEF RetentionEnds
<1>5. ASSUME NEW p \in Pods, NEW j \in Jobs, Claim(p, j) PROVE PodsFit
  BY <1>5, <1>a
  DEF Claim
<1>6. ASSUME NEW p \in Pods, Poll(p) PROVE PodsFit
  <2> DEFINE e == [active |-> \E j \in Jobs : Active(j), stale |-> FALSE, generation |-> selection]
  <2>1. e \in PodRecords /\ e.generation = selection /\ ~e.stale /\ e.active = \E j \in Jobs : Active(j)
    BY <1>0 DEF PodsOK, PodRecords, SelectionOK
  <2>2. pods' = [pods EXCEPT ![p] = e]
    BY <1>0, <1>6 DEF Poll, PodsOK, PodRecords
  <2> HIDE DEF e
  <2>3. PodsOK' /\ pods'[p] = e /\ \A q \in Pods \ {p} : PodStep(q)
    BY <1>0, <2>1, <2>2, OnePod
  <2>4. PodStep(p)
    BY <1>6, <2>1, <2>3 DEF PodStep
  <2> QED BY <2>3, <2>4 DEF PodsFit
<1>7. ASSUME NEW p \in Pods, PollFails(p) PROVE PodsFit
  <2> DEFINE e == [pods[p] EXCEPT !.active = \E j \in Jobs : Active(j), !.stale = TRUE]
  <2>1. e \in PodRecords /\ e.generation = pods[p].generation /\ e.stale
    BY <1>0 DEF PodsOK, PodRecords, SelectionOK
  <2>2. pods' = [pods EXCEPT ![p] = e]
    BY <1>0, <1>7 DEF PollFails, PodsOK, PodRecords
  <2> HIDE DEF e
  <2>3. PodsOK' /\ pods'[p] = e /\ \A q \in Pods \ {p} : PodStep(q)
    BY <1>0, <2>1, <2>2, OnePod
  <2>4. PodStep(p)
    BY <1>7, <2>1, <2>3 DEF PodStep
  <2> QED BY <2>3, <2>4 DEF PodsFit
<1>8. ASSUME NEW p \in Pods, Load(p) PROVE PodsFit
  BY <1>8, <1>a
  DEF Load
<1>9. ASSUME NEW p \in Pods, Prepare(p) PROVE PodsFit
  BY <1>9, <1>a
  DEF Prepare
<1>10. ASSUME NEW p \in Pods, Sweep(p) PROVE PodsFit
  BY <1>10, <1>a
  DEF Sweep
<1>11. ASSUME NEW p \in Pods, Embed(p) PROVE PodsFit
  BY <1>11, <1>a
  DEF Embed
<1>12. ASSUME NEW p \in Pods, AwaitWriters(p) PROVE PodsFit
  BY <1>12, <1>a
  DEF AwaitWriters
<1>13. ASSUME NEW p \in Pods, CatchUp(p) PROVE PodsFit
  BY <1>13, <1>a
  DEF CatchUp
<1>14. ASSUME NEW p \in Pods, DeleteRemoved(p) PROVE PodsFit
  BY <1>14, <1>a
  DEF DeleteRemoved
<1>15. ASSUME NEW p \in Pods, CommitGeneration(p) PROVE PodsFit
  BY <1>15, <1>a
  DEF CommitGeneration
<1>16. ASSUME NEW p \in Pods, Complete(p) PROVE PodsFit
  BY <1>16, <1>a
  DEF Complete
<1>17. ASSUME NEW p \in Pods, LeaseLost(p) PROVE PodsFit
  BY <1>17, <1>a
  DEF LeaseLost
<1>18. ASSUME NEW p \in Pods, SweepFails(p) PROVE PodsFit
  BY <1>18, <1>a
  DEF SweepFails
<1>19. ASSUME NEW p \in Pods, Crash(p) PROVE PodsFit
  <2> DEFINE e == [active |-> FALSE, stale |-> TRUE, generation |-> selection]
  <2>1. e \in PodRecords /\ e.generation = selection /\ e.stale
    BY <1>0 DEF PodsOK, PodRecords, SelectionOK
  <2>2. pods' = [pods EXCEPT ![p] = e]
    BY <1>0, <1>19 DEF Crash, PodsOK, PodRecords
  <2> HIDE DEF e
  <2>3. PodsOK' /\ pods'[p] = e /\ \A q \in Pods \ {p} : PodStep(q)
    BY <1>0, <2>1, <2>2, OnePod
  <2>4. PodStep(p)
    BY <1>19, <2>1, <2>3 DEF PodStep
  <2> QED BY <2>3, <2>4 DEF PodsFit
<1>20. ASSUME NEW p \in Pods, GcRead(p) \/ Gc(p) \/ GcFails(p) PROVE PodsFit
  BY <1>20, <1>a, GcKeeps
<1>21. ASSUME NEW w \in Writers, Commit(w) PROVE PodsFit
  BY <1>21, <1>a
  DEF Commit
<1>22. ASSUME NEW w \in Writers, Resolve(w) PROVE PodsFit
  BY <1>22, <1>a
  DEF Resolve
<1>23. ASSUME NEW w \in Writers, Land(w) PROVE PodsFit
  BY <1>23, <1>a
  DEF Land
<1>24. ASSUME NEW w \in Writers, SyncStalls(w) PROVE PodsFit
  BY <1>24, <1>a
  DEF SyncStalls
<1>25. ASSUME NEW w \in Writers, NEW p \in Pods, Pass(w, p) PROVE PodsFit
  BY <1>25, <1>a
  DEF Pass
<1>26. ASSUME NEW w \in Writers, NEW p \in Pods, Federate(w, p) PROVE PodsFit
  BY <1>26, <1>a
  DEF Federate
<1>27. ASSUME NEW w \in Writers, NEW p \in Pods, Reconcile(w, p) PROVE PodsFit
  BY <1>27, <1>a
  DEF Reconcile
<1>28. CASE UNCHANGED vars
  BY <1>28, <1>a
  DEF vars
<1> QED BY <1>1, <1>2, <1>3, <1>4, <1>5, <1>6, <1>7, <1>8, <1>9, <1>10, <1>11, <1>12,
    <1>13, <1>14, <1>15, <1>16, <1>17, <1>18, <1>19, <1>20, <1>21, <1>22, <1>23, <1>24,
    <1>25, <1>26, <1>27, <1>28
  DEF Next, Execute

Landing(w) == writer[w].pc = "landing"
(* What a step does to a writer. *)
WriterStep(w) ==
  \/ writer'[w] = writer[w]
  \/ writer'[w].pc = "idle"
  \/ \E p \in Pods : Pass(w, p) /\ writer'[w].pc = "passed"
  \/ \E p \in Pods : Federate(w, p) /\ writer'[w].pc = "federating" /\ writer'[w].live
  \/ writer'[w].pc = "sync"
  \/ /\ Resolve(w) /\ writer'[w].pc = "landing" /\ writer[w].pod \in Pods
     /\ ~Closed(writer[w].pod) /\ ~ \E v \in Writers : Landing(v)
     /\ document.marked \/ document.version = Absent
     /\ writer'[w].seen = document.version /\ writer'[w].into = pods[writer[w].pod].generation
  \/ /\ SyncStalls(w) /\ writer'[w].pc = writer[w].pc /\ writer'[w].seen = writer[w].seen
     /\ writer'[w].into = writer[w].into
WritersFit == WriterOK' /\ \A w \in Writers : WriterStep(w)

LEMMA WritersSame ==
  ASSUME WriterOK, UNCHANGED writer
  PROVE  WritersFit
BY DEF WritersFit, WriterOK, WriterStep

LEMMA OneWriter ==
  ASSUME WriterOK, NEW w \in Writers, NEW e \in WriterStates, Becomes(w, e),
         e.pc = "idle" \/ e.pod \in Pods
  PROVE  /\ WriterOK' /\ writer'[w] = e
         /\ \A v \in Writers \ {w} : writer'[v] = writer[v] /\ WriterStep(v)
BY DEF WriterOK, WriterStep, Becomes

LEMMA OneWriterStep ==
  ASSUME WriterOK, NEW w \in Writers, NEW e \in WriterStates, Becomes(w, e),
         e.pc = "idle" \/ e.pod \in Pods, writer'[w] = e => WriterStep(w)
  PROVE  WritersFit
BY OneWriter DEF WritersFit

LEMMA NoWriterShape ==
  /\ NoWriter \in WriterStates /\ NoWriter.pc = "idle" /\ NoWriter.pod = Nobody
  /\ NoWriter.live = FALSE /\ NoWriter.seen = Absent /\ NoWriter.into = Base
BY Names DEF NoWriter, WriterStates

LEMMA WriterIdles ==
  ASSUME WriterOK, NEW w \in Writers, Becomes(w, NoWriter)
  PROVE  WritersFit
BY NoWriterShape, OneWriterStep DEF WriterStep

LEMMA WritersStep ==
  ASSUME Typed, [Next]_vars
  PROVE  WritersFit
<1>0. WriterOK /\ PodsOK /\ document.version \in Versions \cup {Absent}
  BY DEF Typed, DocumentOK, Documents
<1>1. ASSUME NEW j \in Jobs, Ask(j) PROVE WritersFit
  BY <1>1, <1>0, WritersSame
  DEF Ask
<1>2. ASSUME NEW j \in Jobs, Insert(j) PROVE WritersFit
  BY <1>2, <1>0, WritersSame
  DEF Insert
<1>3. ASSUME NEW j \in Jobs, Expire(j) PROVE WritersFit
  BY <1>3, <1>0, WritersSame
  DEF Expire
<1>4. ASSUME NEW j \in Jobs, RetentionEnds(j) PROVE WritersFit
  BY <1>4, <1>0, WritersSame
  DEF RetentionEnds
<1>5. ASSUME NEW p \in Pods, NEW j \in Jobs, Claim(p, j) PROVE WritersFit
  BY <1>5, <1>0, WritersSame
  DEF Claim
<1>6. ASSUME NEW p \in Pods, Poll(p) PROVE WritersFit
  BY <1>6, <1>0, WritersSame
  DEF Poll
<1>7. ASSUME NEW p \in Pods, PollFails(p) PROVE WritersFit
  BY <1>7, <1>0, WritersSame
  DEF PollFails
<1>8. ASSUME NEW p \in Pods, Load(p) PROVE WritersFit
  BY <1>8, <1>0, WritersSame
  DEF Load
<1>9. ASSUME NEW p \in Pods, Prepare(p) PROVE WritersFit
  BY <1>9, <1>0, WritersSame
  DEF Prepare
<1>10. ASSUME NEW p \in Pods, Sweep(p) PROVE WritersFit
  BY <1>10, <1>0, WritersSame
  DEF Sweep
<1>11. ASSUME NEW p \in Pods, Embed(p) PROVE WritersFit
  BY <1>11, <1>0, WritersSame
  DEF Embed
<1>12. ASSUME NEW p \in Pods, AwaitWriters(p) PROVE WritersFit
  BY <1>12, <1>0, WritersSame
  DEF AwaitWriters
<1>13. ASSUME NEW p \in Pods, CatchUp(p) PROVE WritersFit
  BY <1>13, <1>0, WritersSame
  DEF CatchUp
<1>14. ASSUME NEW p \in Pods, DeleteRemoved(p) PROVE WritersFit
  BY <1>14, <1>0, WritersSame
  DEF DeleteRemoved
<1>15. ASSUME NEW p \in Pods, CommitGeneration(p) PROVE WritersFit
  BY <1>15, <1>0, WritersSame
  DEF CommitGeneration
<1>16. ASSUME NEW p \in Pods, Complete(p) PROVE WritersFit
  BY <1>16, <1>0, WritersSame
  DEF Complete
<1>17. ASSUME NEW p \in Pods, LeaseLost(p) PROVE WritersFit
  BY <1>17, <1>0, WritersSame
  DEF LeaseLost
<1>18. ASSUME NEW p \in Pods, SweepFails(p) PROVE WritersFit
  BY <1>18, <1>0, WritersSame
  DEF SweepFails
<1>19. ASSUME NEW p \in Pods, Crash(p) PROVE WritersFit
  <2>1. writer' = [w \in Writers |-> IF writer[w].pod = p THEN NoWriter ELSE writer[w]]
    BY <1>19 DEF Crash
  <2>2. WriterOK'
    BY <1>0, <2>1, NoWriterShape DEF WriterOK
  <2>3. \A w \in Writers : writer'[w] = writer[w] \/ writer'[w].pc = "idle"
    BY <2>1, NoWriterShape
  <2> QED BY <2>2, <2>3 DEF WritersFit, WriterStep
<1>20. ASSUME NEW p \in Pods, GcRead(p) \/ Gc(p) \/ GcFails(p) PROVE WritersFit
  BY <1>20, <1>0, WritersSame, GcKeeps
<1>21. ASSUME NEW w \in Writers, Commit(w) PROVE WritersFit
  <2>1. CASE Becomes(w, NoWriter)
    BY <1>0, <2>1, WriterIdles
  <2>2. CASE Becomes(w, [writer[w] EXCEPT !.pc = "sync", !.live = FALSE])
    <3> DEFINE e == [writer[w] EXCEPT !.pc = "sync", !.live = FALSE]
    <3>1. e \in WriterStates /\ e.pod \in Pods /\ e.pc = "sync"
      BY <1>0, <1>21 DEF WriterStates, Commit, WriterOK
    <3> HIDE DEF e
    <3>2. writer'[w] = e => WriterStep(w)
      BY <3>1 DEF WriterStep
    <3>3. Becomes(w, e)
      BY <2>2 DEF e
    <3> QED BY <1>0, <3>1, <3>2, <3>3, OneWriterStep
  <2> QED BY <1>21, <2>1, <2>2 DEF Commit
<1>22. ASSUME NEW w \in Writers, Resolve(w) PROVE WritersFit
  <2> DEFINE opens == /\ WriteGate(writer[w].pod)
                      /\ ~ \E v \in Writers : writer[v].pc = "landing"
                      /\ document.marked \/ document.version = Absent
              e == [writer[w] EXCEPT !.pc = "landing", !.seen = document.version,
                                     !.into = pods[writer[w].pod].generation]
  <2>1. CASE ~opens
    <3>1. Becomes(w, NoWriter)
      BY <1>22, <2>1 DEF Resolve
    <3> QED BY <1>0, <3>1, WriterIdles
  <2>2. CASE opens
    <3>1. writer[w].pod \in Pods /\ writer[w] \in WriterStates
      BY <1>0, <1>22 DEF Resolve, WriterOK
    <3>2. /\ e \in WriterStates /\ e.pc = "landing" /\ e.pod \in Pods
          /\ e.seen = document.version /\ e.into = pods[writer[w].pod].generation
      BY <1>0, <3>1 DEF WriterStates, PodsOK, PodRecords
    <3>3. Becomes(w, e)
      BY <1>22, <2>2 DEF Resolve
    <3>4. /\ ~Closed(writer[w].pod) /\ ~ \E v \in Writers : Landing(v)
          /\ document.marked \/ document.version = Absent
      BY <2>2 DEF WriteGate, Landing
    <3> HIDE DEF e, opens
    <3>5. writer'[w] = e => WriterStep(w)
      BY <1>22, <3>1, <3>2, <3>4 DEF WriterStep
    <3> QED BY <1>0, <3>2, <3>3, <3>5, OneWriterStep
  <2> QED BY <2>1, <2>2
<1>23. ASSUME NEW w \in Writers, Land(w) PROVE WritersFit
  BY <1>0, <1>23, WriterIdles DEF Land
<1>24. ASSUME NEW w \in Writers, SyncStalls(w) PROVE WritersFit
  <2> DEFINE e == [writer[w] EXCEPT !.live = FALSE]
  <2>1. writer[w] \in WriterStates /\ (writer[w].pc = "idle" \/ writer[w].pod \in Pods)
    BY <1>0 DEF WriterOK
  <2>2. /\ e \in WriterStates /\ e.pc = writer[w].pc /\ e.seen = writer[w].seen
        /\ e.into = writer[w].into /\ e.pod = writer[w].pod
    BY <2>1 DEF WriterStates
  <2>3. Becomes(w, e)
    BY <1>24 DEF SyncStalls
  <2> HIDE DEF e
  <2>4. writer'[w] = e => WriterStep(w)
    BY <1>24, <2>2 DEF WriterStep
  <2> QED BY <1>0, <2>1, <2>2, <2>3, <2>4, OneWriterStep
<1>25. ASSUME NEW w \in Writers, NEW p \in Pods, Pass(w, p) PROVE WritersFit
  <2> DEFINE e == [NoWriter EXCEPT !.pc = "passed", !.pod = p]
  <2>1. e \in WriterStates /\ e.pod \in Pods /\ e.pc = "passed"
    BY <1>0, <1>25, NoWriterShape DEF WriterStates, Pass, WriterOK
  <2>2. Becomes(w, e)
    BY <1>25 DEF Pass
  <2> HIDE DEF e
  <2>3. writer'[w] = e => WriterStep(w)
    BY <1>25, <2>1 DEF WriterStep
  <2> QED BY <1>0, <2>1, <2>2, <2>3, OneWriterStep
<1>26. ASSUME NEW w \in Writers, NEW p \in Pods, Federate(w, p) PROVE WritersFit
  <2> DEFINE e == [NoWriter EXCEPT !.pc = "federating", !.pod = p, !.live = TRUE]
  <2>1. e \in WriterStates /\ e.pod \in Pods /\ e.pc = "federating" /\ e.live
    BY <1>0, <1>26, NoWriterShape DEF WriterStates, Federate, WriterOK
  <2>2. Becomes(w, e)
    BY <1>26 DEF Federate
  <2> HIDE DEF e
  <2>3. writer'[w] = e => WriterStep(w)
    BY <1>26, <2>1 DEF WriterStep
  <2> QED BY <1>0, <2>1, <2>2, <2>3, OneWriterStep
<1>27. ASSUME NEW w \in Writers, NEW p \in Pods, Reconcile(w, p) PROVE WritersFit
  <2> DEFINE e == [NoWriter EXCEPT !.pc = "sync", !.pod = p]
  <2>1. e \in WriterStates /\ e.pod \in Pods /\ e.pc = "sync"
    BY <1>0, <1>27, NoWriterShape DEF WriterStates, Reconcile, WriterOK
  <2>2. Becomes(w, e)
    BY <1>27 DEF Reconcile
  <2> HIDE DEF e
  <2>3. writer'[w] = e => WriterStep(w)
    BY <1>27, <2>1 DEF WriterStep
  <2> QED BY <1>0, <2>1, <2>2, <2>3, OneWriterStep
<1>28. CASE UNCHANGED vars
  BY <1>28, <1>0, WritersSame
  DEF vars
<1> QED BY <1>1, <1>2, <1>3, <1>4, <1>5, <1>6, <1>7, <1>8, <1>9, <1>10, <1>11, <1>12,
    <1>13, <1>14, <1>15, <1>16, <1>17, <1>18, <1>19, <1>20, <1>21, <1>22, <1>23, <1>24,
    <1>25, <1>26, <1>27, <1>28
  DEF Next, Execute

(* What a step does to the entity in MongoDB. *)
DocumentFits ==
  /\ DocumentOK'
  /\ \/ document' = document
     \/ \E w \in Writers :
          /\ Commit(w) /\ document.version \in 1..MaxVersion - 1 /\ writer'[w].pc = "sync"
          /\ \/ document'.version = document.version + 1 /\ document'.marked
             \/ document'.version = Absent /\ ~document'.marked
     \/ \E w \in Writers : /\ Land(w) /\ document.version = writer[w].seen
                           /\ document'.version = document.version /\ ~document'.marked

LEMMA DocumentSame ==
  ASSUME DocumentOK, UNCHANGED document
  PROVE  DocumentFits
BY DEF DocumentFits, DocumentOK

LEMMA DocumentStep ==
  ASSUME Typed, [Next]_vars
  PROVE  DocumentFits
<1>0. DocumentOK /\ WriterOK
  BY DEF Typed
<1>1. ASSUME NEW j \in Jobs, Ask(j) PROVE DocumentFits
  BY <1>1, <1>0, DocumentSame
  DEF Ask
<1>2. ASSUME NEW j \in Jobs, Insert(j) PROVE DocumentFits
  BY <1>2, <1>0, DocumentSame
  DEF Insert
<1>3. ASSUME NEW j \in Jobs, Expire(j) PROVE DocumentFits
  BY <1>3, <1>0, DocumentSame
  DEF Expire
<1>4. ASSUME NEW j \in Jobs, RetentionEnds(j) PROVE DocumentFits
  BY <1>4, <1>0, DocumentSame
  DEF RetentionEnds
<1>5. ASSUME NEW p \in Pods, NEW j \in Jobs, Claim(p, j) PROVE DocumentFits
  BY <1>5, <1>0, DocumentSame
  DEF Claim
<1>6. ASSUME NEW p \in Pods, Poll(p) PROVE DocumentFits
  BY <1>6, <1>0, DocumentSame
  DEF Poll
<1>7. ASSUME NEW p \in Pods, PollFails(p) PROVE DocumentFits
  BY <1>7, <1>0, DocumentSame
  DEF PollFails
<1>8. ASSUME NEW p \in Pods, Load(p) PROVE DocumentFits
  BY <1>8, <1>0, DocumentSame
  DEF Load
<1>9. ASSUME NEW p \in Pods, Prepare(p) PROVE DocumentFits
  BY <1>9, <1>0, DocumentSame
  DEF Prepare
<1>10. ASSUME NEW p \in Pods, Sweep(p) PROVE DocumentFits
  BY <1>10, <1>0, DocumentSame
  DEF Sweep
<1>11. ASSUME NEW p \in Pods, Embed(p) PROVE DocumentFits
  BY <1>11, <1>0, DocumentSame
  DEF Embed
<1>12. ASSUME NEW p \in Pods, AwaitWriters(p) PROVE DocumentFits
  BY <1>12, <1>0, DocumentSame
  DEF AwaitWriters
<1>13. ASSUME NEW p \in Pods, CatchUp(p) PROVE DocumentFits
  BY <1>13, <1>0, DocumentSame
  DEF CatchUp
<1>14. ASSUME NEW p \in Pods, DeleteRemoved(p) PROVE DocumentFits
  BY <1>14, <1>0, DocumentSame
  DEF DeleteRemoved
<1>15. ASSUME NEW p \in Pods, CommitGeneration(p) PROVE DocumentFits
  BY <1>15, <1>0, DocumentSame
  DEF CommitGeneration
<1>16. ASSUME NEW p \in Pods, Complete(p) PROVE DocumentFits
  BY <1>16, <1>0, DocumentSame
  DEF Complete
<1>17. ASSUME NEW p \in Pods, LeaseLost(p) PROVE DocumentFits
  BY <1>17, <1>0, DocumentSame
  DEF LeaseLost
<1>18. ASSUME NEW p \in Pods, SweepFails(p) PROVE DocumentFits
  BY <1>18, <1>0, DocumentSame
  DEF SweepFails
<1>19. ASSUME NEW p \in Pods, Crash(p) PROVE DocumentFits
  BY <1>19, <1>0, DocumentSame
  DEF Crash
<1>20. ASSUME NEW p \in Pods, GcRead(p) \/ Gc(p) \/ GcFails(p) PROVE DocumentFits
  BY <1>20, <1>0, DocumentSame, GcKeeps
<1>21. ASSUME NEW w \in Writers, Commit(w) PROVE DocumentFits
  <2>1. CASE UNCHANGED document
    BY <1>0, <2>1, DocumentSame
  <2>2. CASE document' # document
    <3>1. document.version \in 1..MaxVersion - 1
      BY <1>21, <2>2 DEF Commit
    <3>2. \/ document' = [version |-> document.version + 1, marked |-> TRUE]
          \/ document' = [version |-> Absent, marked |-> FALSE]
      BY <1>21, <2>2 DEF Commit
    <3>3. Becomes(w, [writer[w] EXCEPT !.pc = "sync", !.live = FALSE])
      BY <1>21, <2>2 DEF Commit
    <3>4. writer'[w].pc = "sync"
      BY <1>0, <3>3 DEF Becomes, WriterOK, WriterStates
    <3>5. document.version + 1 \in Versions
      BY <3>1, BoundsAssumption DEF Versions
    <3> DEFINE v == document.version + 1
    <3>6. v \in Versions \cup {Absent} /\ Absent \in Versions \cup {Absent}
      BY <3>5
    <3> HIDE DEF v
    <3>7. [version |-> v, marked |-> TRUE] \in Documents /\ [version |-> Absent, marked |-> FALSE] \in Documents
      BY <3>6 DEF Documents
    <3>8. DocumentOK'
      BY <3>2, <3>7 DEF DocumentOK, v
    <3> QED BY <1>21, <3>1, <3>2, <3>4, <3>8 DEF DocumentFits
  <2> QED BY <2>1, <2>2
<1>22. ASSUME NEW w \in Writers, Resolve(w) PROVE DocumentFits
  BY <1>22, <1>0, DocumentSame
  DEF Resolve
<1>23. ASSUME NEW w \in Writers, Land(w) PROVE DocumentFits
  <2>1. CASE document.version = writer[w].seen
    <3>1. document' = [document EXCEPT !.marked = FALSE]
      BY <1>23, <2>1 DEF Land
    <3>2. DocumentOK' /\ document'.version = document.version /\ ~document'.marked
      BY <1>0, <3>1 DEF DocumentOK, Documents
    <3> QED BY <1>23, <2>1, <3>2 DEF DocumentFits
  <2>2. CASE document.version # writer[w].seen
    BY <1>0, <1>23, <2>2, DocumentSame DEF Land
  <2> QED BY <2>1, <2>2
<1>24. ASSUME NEW w \in Writers, SyncStalls(w) PROVE DocumentFits
  BY <1>24, <1>0, DocumentSame
  DEF SyncStalls
<1>25. ASSUME NEW w \in Writers, NEW p \in Pods, Pass(w, p) PROVE DocumentFits
  BY <1>25, <1>0, DocumentSame
  DEF Pass
<1>26. ASSUME NEW w \in Writers, NEW p \in Pods, Federate(w, p) PROVE DocumentFits
  BY <1>26, <1>0, DocumentSame
  DEF Federate
<1>27. ASSUME NEW w \in Writers, NEW p \in Pods, Reconcile(w, p) PROVE DocumentFits
  BY <1>27, <1>0, DocumentSame
  DEF Reconcile
<1>28. CASE UNCHANGED vars
  BY <1>28, <1>0, DocumentSame
  DEF vars
<1> QED BY <1>1, <1>2, <1>3, <1>4, <1>5, <1>6, <1>7, <1>8, <1>9, <1>10, <1>11, <1>12,
    <1>13, <1>14, <1>15, <1>16, <1>17, <1>18, <1>19, <1>20, <1>21, <1>22, <1>23, <1>24,
    <1>25, <1>26, <1>27, <1>28
  DEF Next, Execute

(* What goes wrong is remembered. *)
RestFits == RestOK' /\ causes \subseteq causes'

LEMMA RestStep ==
  ASSUME Typed, [Next]_vars
  PROVE  RestFits
<1>0. /\ mishaps \in 0..MaxFaults /\ MaxFaults \in Nat
      /\ causes \subseteq AllCauses
  BY BoundsAssumption DEF Typed, RestOK
<1>a. ASSUME mishaps' = mishaps \/ (mishaps < MaxFaults /\ mishaps' = mishaps + 1),
             causes \subseteq causes',
             causes' \subseteq causes \cup AllCauses
      PROVE  RestFits
  BY <1>0, <1>a DEF RestFits, RestOK
<1>1. ASSUME NEW j \in Jobs, Ask(j) PROVE RestFits
  BY <1>1, <1>a
  DEF Ask
<1>2. ASSUME NEW j \in Jobs, Insert(j) PROVE RestFits
  BY <1>2, <1>a
  DEF Insert
<1>3. ASSUME NEW j \in Jobs, Expire(j) PROVE RestFits
  BY <1>3, <1>a DEF Expire, Fault
<1>4. ASSUME NEW j \in Jobs, RetentionEnds(j) PROVE RestFits
  BY <1>4, <1>a
  DEF RetentionEnds
<1>5. ASSUME NEW p \in Pods, NEW j \in Jobs, Claim(p, j) PROVE RestFits
  BY <1>5, <1>a
  DEF Claim
<1>6. ASSUME NEW p \in Pods, Poll(p) PROVE RestFits
  BY <1>6, <1>a DEF Poll, AllCauses
<1>7. ASSUME NEW p \in Pods, PollFails(p) PROVE RestFits
  BY <1>7, <1>a DEF PollFails, Fault
<1>8. ASSUME NEW p \in Pods, Load(p) PROVE RestFits
  BY <1>8, <1>a
  DEF Load
<1>9. ASSUME NEW p \in Pods, Prepare(p) PROVE RestFits
  BY <1>9, <1>a DEF Prepare, Late, AllCauses
<1>10. ASSUME NEW p \in Pods, Sweep(p) PROVE RestFits
  BY <1>10, <1>a
  DEF Sweep
<1>11. ASSUME NEW p \in Pods, Embed(p) PROVE RestFits
  BY <1>11, <1>a DEF Embed, Late, AllCauses
<1>12. ASSUME NEW p \in Pods, AwaitWriters(p) PROVE RestFits
  BY <1>12, <1>a DEF AwaitWriters, Unheard, AllCauses
<1>13. ASSUME NEW p \in Pods, CatchUp(p) PROVE RestFits
  BY <1>13, <1>a DEF CatchUp, AllCauses
<1>14. ASSUME NEW p \in Pods, DeleteRemoved(p) PROVE RestFits
  BY <1>14, <1>a
  DEF DeleteRemoved
<1>15. ASSUME NEW p \in Pods, CommitGeneration(p) PROVE RestFits
  BY <1>15, <1>a
  DEF CommitGeneration
<1>16. ASSUME NEW p \in Pods, Complete(p) PROVE RestFits
  BY <1>16, <1>a DEF Complete, Outlived, AllCauses
<1>17. ASSUME NEW p \in Pods, LeaseLost(p) PROVE RestFits
  BY <1>17, <1>a
  DEF LeaseLost
<1>18. ASSUME NEW p \in Pods, SweepFails(p) PROVE RestFits
  BY <1>18, <1>a DEF SweepFails, Fault
<1>19. ASSUME NEW p \in Pods, Crash(p) PROVE RestFits
  BY <1>19, <1>a DEF Crash, Fault
<1>20. ASSUME NEW p \in Pods, GcRead(p) \/ Gc(p) \/ GcFails(p) PROVE RestFits
  BY <1>20, <1>a, GcKeeps DEF Fault
<1>21. ASSUME NEW w \in Writers, Commit(w) PROVE RestFits
  BY <1>21, <1>a
  DEF Commit
<1>22. ASSUME NEW w \in Writers, Resolve(w) PROVE RestFits
  BY <1>22, <1>a
  DEF Resolve
<1>23. ASSUME NEW w \in Writers, Land(w) PROVE RestFits
  BY <1>23, <1>a
  DEF Land
<1>24. ASSUME NEW w \in Writers, SyncStalls(w) PROVE RestFits
  BY <1>24, <1>a DEF SyncStalls, Fault, AllCauses
<1>25. ASSUME NEW w \in Writers, NEW p \in Pods, Pass(w, p) PROVE RestFits
  BY <1>25, <1>a
  DEF Pass
<1>26. ASSUME NEW w \in Writers, NEW p \in Pods, Federate(w, p) PROVE RestFits
  BY <1>26, <1>a
  DEF Federate
<1>27. ASSUME NEW w \in Writers, NEW p \in Pods, Reconcile(w, p) PROVE RestFits
  BY <1>27, <1>a
  DEF Reconcile
<1>28. CASE UNCHANGED vars
  BY <1>28, <1>a
  DEF vars
<1> QED BY <1>1, <1>2, <1>3, <1>4, <1>5, <1>6, <1>7, <1>8, <1>9, <1>10, <1>11, <1>12,
    <1>13, <1>14, <1>15, <1>16, <1>17, <1>18, <1>19, <1>20, <1>21, <1>22, <1>23, <1>24,
    <1>25, <1>26, <1>27, <1>28
  DEF Next, Execute

-----------------------------------------------------------------------------
(* Passes of the collector *)

(* How a pass comes to where it is. *)
PassStep(p) ==
  LET before == collector[p]
      after == collector'[p]
  IN  \/ after = before
      \/ after.step \in {"idle", "due"}
      \/ after.step = "protect" /\ GcRead(p) /\ after.active = selection
      \/ /\ after.active = before.active /\ Collecting(p)
         /\ UNCHANGED <<selection, jobs, pods, causes>>
         /\ \/ GcProtect(p) /\ after.step = "list" /\ after.spared = Spared
            \/ /\ GcList(p) /\ after.step = "check"
               /\ after.left \cap ({before.active} \cup before.spared) = {}
               /\ \A j \in after.old : jobs[j].status = "completed" /\ ~jobs[j].recent
            \/ /\ after.step = "check" /\ before.step \in {"check", "drop"}
               /\ after.left \subseteq before.left /\ after.old = before.old
            \/ /\ after.step = "drop" /\ GcCheck(p, after.victim) /\ after.victim \in before.left
               /\ after.left \subseteq before.left /\ after.old = before.old
               /\ Over(after.victim)
               /\ \A j \in Jobs : Supersedes(j, after.victim) => j \in before.old
CollectorFits == CollectorOK' /\ \A p \in Pods : PassStep(p)

LEMMA NoPassShape ==
  /\ NoPass \in Passes /\ NoPass.step = "idle" /\ NoPass.active = Base
  /\ \A p : NextPass(p) \in Passes /\ NextPass(p).step \in {"idle", "due"}
BY Names DEF NoPass, NextPass, Passes

LEMMA CollectorSame ==
  ASSUME CollectorOK, UNCHANGED collector
  PROVE  CollectorFits
BY DEF CollectorFits, CollectorOK, PassStep

LEMMA OnePass ==
  ASSUME CollectorOK, NEW p \in Pods, NEW e \in Passes, Collects(p, e),
         e.step = "drop" => e.victim \in Jobs, collector'[p] = e => PassStep(p)
  PROVE  CollectorFits
<1>1. collector' = [collector EXCEPT ![p] = e]
  BY DEF Collects
<1>2. CollectorOK' /\ collector'[p] = e /\ \A q \in Pods \ {p} : collector'[q] = collector[q]
  BY <1>1 DEF CollectorOK
<1>3. \A q \in Pods \ {p} : PassStep(q)
  BY <1>2 DEF PassStep
<1> QED BY <1>2, <1>3 DEF CollectorFits

LEMMA PassEnds ==
  ASSUME CollectorOK, NEW p \in Pods, Collects(p, NextPass(p)) \/ Collects(p, NoPass)
  PROVE  CollectorFits
BY NoPassShape, OnePass DEF PassStep

LEMMA ContinuedShape ==
  ASSUME NEW pass \in Passes, NEW names \in SUBSET Jobs
  PROVE  /\ Continued(pass, names) \in Passes
         /\ Continued(pass, names).step \in {"idle", "check"}
         /\ Continued(pass, names).step = "check" =>
              /\ Continued(pass, names).active = pass.active /\ Continued(pass, names).left = names
              /\ Continued(pass, names).old = pass.old
<1>1. CASE names = {}
  BY <1>1, NoPassShape DEF Continued
<1>2. CASE names # {}
  BY <1>2 DEF Continued, Passes
<1> QED BY <1>1, <1>2

LEMMA GcStep ==
  ASSUME Typed, NEW p \in Pods, GcRead(p) \/ Gc(p) \/ GcFails(p)
  PROVE  CollectorFits
<1>0. CollectorOK /\ collector[p] \in Passes /\ collector[p].left \in SUBSET Jobs
  BY DEF Typed, CollectorOK, Passes
<1>1. UNCHANGED <<selection, jobs, pods, causes>>
  BY GcKeeps
<1>2. CASE GcRead(p)
  <2> DEFINE e == [NoPass EXCEPT !.step = "protect", !.active = selection]
  <2>1. e \in Passes /\ e.step = "protect" /\ e.active = selection
    BY NoPassShape DEF Typed, SelectionOK, Passes
  <2>2. Collects(p, e)
    BY <1>2 DEF GcRead
  <2> HIDE DEF e
  <2> QED BY <1>0, <1>2, <2>1, <2>2, OnePass DEF PassStep
<1>3. CASE GcProtect(p)
  <2> DEFINE e == [collector[p] EXCEPT !.step = "list", !.spared = Spared]
  <2>1. Spared \in SUBSET (Generations \cup {NoJob})
    BY DEF Spared, Typed, JobsOK, Records
  <2>2. e \in Passes /\ e.step = "list" /\ e.spared = Spared /\ e.active = collector[p].active
    BY <1>0, <2>1 DEF Passes
  <2>3. Collects(p, e) /\ Collecting(p)
    BY <1>3 DEF GcProtect, Collecting
  <2> HIDE DEF e
  <2> QED BY <1>0, <1>1, <1>3, <2>2, <2>3, OnePass DEF PassStep
<1>4. CASE GcList(p)
  <2> DEFINE old == {j \in Jobs : jobs[j].status = "completed" /\ ~jobs[j].recent}
             dated == [collector[p] EXCEPT !.old = old]
             names == {g \in Jobs : vectors[g] # Missing} \ ({collector[p].active} \cup collector[p].spared)
             e == Continued(dated, names)
  <2>1. dated \in Passes /\ dated.active = collector[p].active /\ dated.old = old /\ names \in SUBSET Jobs
    BY <1>0 DEF Passes
  <2>2. Collects(p, e) /\ Collecting(p)
    BY <1>4 DEF GcList, Collecting
  <2>3. names \cap ({collector[p].active} \cup collector[p].spared) = {}
    OBVIOUS
  <2>4. \A j \in old : jobs[j].status = "completed" /\ ~jobs[j].recent
    OBVIOUS
  <2> HIDE DEF dated, names, old
  <2>5. /\ e \in Passes /\ e.step \in {"idle", "check"}
        /\ e.step = "check" => e.active = collector[p].active /\ e.left = names /\ e.old = old
    BY <2>1, ContinuedShape
  <2> HIDE DEF e
  <2>6. collector'[p] = e => PassStep(p)
    BY <1>1, <1>4, <2>2, <2>3, <2>4, <2>5 DEF PassStep
  <2> QED BY <1>0, <2>2, <2>5, <2>6, OnePass
<1>5. ASSUME NEW g \in Jobs, GcCheck(p, g) PROVE CollectorFits
  <2> DEFINE rest == collector[p].left \ {g}
             doomed == Over(g) /\ \A j \in Jobs : Supersedes(j, g) => j \in collector[p].old
             e == [collector[p] EXCEPT !.step = "drop", !.left = rest, !.victim = g]
  <2>1. g \in collector[p].left /\ collector[p].step = "check" /\ Collecting(p) /\ rest \in SUBSET Jobs
    BY <1>0, <1>5 DEF GcCheck, Collecting
  <2>2. CASE doomed
    <3>1. Collects(p, e)
      BY <1>5, <2>2 DEF GcCheck
    <3>2. /\ e \in Passes /\ e.step = "drop" /\ e.victim = g /\ e.left = rest
          /\ e.active = collector[p].active /\ e.old = collector[p].old
      BY <1>0, <2>1 DEF Passes
    <3> HIDE DEF e
    <3>3. collector'[p] = e => PassStep(p)
      BY <1>1, <1>5, <2>1, <2>2, <3>2 DEF PassStep
    <3> QED BY <1>0, <3>1, <3>2, <3>3, OnePass
  <2>3. CASE ~doomed
    <3>1. Collects(p, Continued(collector[p], rest))
      BY <1>5, <2>3 DEF GcCheck
    <3> DEFINE c == Continued(collector[p], rest)
    <3>2. /\ c \in Passes /\ c.step \in {"idle", "check"}
          /\ c.step = "check" => c.active = collector[p].active /\ c.left = rest /\ c.old = collector[p].old
      BY <1>0, <2>1, ContinuedShape
    <3> HIDE DEF c
    <3>3. collector'[p] = c => PassStep(p)
      BY <1>1, <2>1, <3>2 DEF PassStep
    <3> QED BY <1>0, <3>1, <3>2, <3>3, OnePass DEF c
  <2> QED BY <2>2, <2>3
<1>6. CASE GcDrop(p)
  <2> DEFINE c == Continued(collector[p], collector[p].left)
  <2>1. Collects(p, c) /\ collector[p].step = "drop" /\ Collecting(p)
    BY <1>6 DEF GcDrop, Collecting
  <2>2. /\ c \in Passes /\ c.step \in {"idle", "check"}
        /\ c.step = "check" => /\ c.active = collector[p].active /\ c.left = collector[p].left
                               /\ c.old = collector[p].old
    BY <1>0, ContinuedShape
  <2> HIDE DEF c
  <2>3. collector'[p] = c => PassStep(p)
    BY <1>1, <2>1, <2>2 DEF PassStep
  <2> QED BY <1>0, <2>1, <2>2, <2>3, OnePass
<1>7. CASE GcFails(p)
  BY <1>0, <1>7, PassEnds DEF GcFails
<1> QED BY <1>2, <1>3, <1>4, <1>5, <1>6, <1>7 DEF Gc

LEMMA CollectorStep ==
  ASSUME Typed, [Next]_vars
  PROVE  CollectorFits
<1>0. CollectorOK
  BY DEF Typed
<1>a. ASSUME UNCHANGED collector PROVE CollectorFits
  BY <1>0, <1>a, CollectorSame
<1>1. ASSUME NEW j \in Jobs, Ask(j) PROVE CollectorFits
  BY <1>1, <1>a DEF Ask
<1>2. ASSUME NEW j \in Jobs, Insert(j) PROVE CollectorFits
  BY <1>2, <1>a DEF Insert
<1>3. ASSUME NEW j \in Jobs, Expire(j) PROVE CollectorFits
  BY <1>3, <1>a DEF Expire
<1>4. ASSUME NEW j \in Jobs, RetentionEnds(j) PROVE CollectorFits
  BY <1>4, <1>a DEF RetentionEnds
<1>5. ASSUME NEW p \in Pods, NEW j \in Jobs, Claim(p, j) PROVE CollectorFits
  BY <1>5, <1>a DEF Claim
<1>6. ASSUME NEW p \in Pods, Poll(p) PROVE CollectorFits
  BY <1>6, <1>0, PassEnds DEF Poll
<1>7. ASSUME NEW p \in Pods, PollFails(p) PROVE CollectorFits
  BY <1>7, <1>a DEF PollFails
<1>8. ASSUME NEW p \in Pods, Load(p) PROVE CollectorFits
  BY <1>8, <1>a DEF Load
<1>9. ASSUME NEW p \in Pods, Prepare(p) PROVE CollectorFits
  BY <1>9, <1>a DEF Prepare
<1>10. ASSUME NEW p \in Pods, Sweep(p) PROVE CollectorFits
  BY <1>10, <1>a DEF Sweep
<1>11. ASSUME NEW p \in Pods, Embed(p) PROVE CollectorFits
  BY <1>11, <1>a DEF Embed
<1>12. ASSUME NEW p \in Pods, AwaitWriters(p) PROVE CollectorFits
  BY <1>12, <1>a DEF AwaitWriters
<1>13. ASSUME NEW p \in Pods, CatchUp(p) PROVE CollectorFits
  BY <1>13, <1>a DEF CatchUp
<1>14. ASSUME NEW p \in Pods, DeleteRemoved(p) PROVE CollectorFits
  BY <1>14, <1>a DEF DeleteRemoved
<1>15. ASSUME NEW p \in Pods, CommitGeneration(p) PROVE CollectorFits
  BY <1>15, <1>a DEF CommitGeneration
<1>16. ASSUME NEW p \in Pods, Complete(p) PROVE CollectorFits
  BY <1>16, <1>a DEF Complete
<1>17. ASSUME NEW p \in Pods, LeaseLost(p) PROVE CollectorFits
  BY <1>17, <1>a DEF LeaseLost
<1>18. ASSUME NEW p \in Pods, SweepFails(p) PROVE CollectorFits
  BY <1>18, <1>a DEF SweepFails
<1>19. ASSUME NEW p \in Pods, Crash(p) PROVE CollectorFits
  BY <1>19, <1>0, PassEnds DEF Crash
<1>20. ASSUME NEW p \in Pods, GcRead(p) \/ Gc(p) \/ GcFails(p) PROVE CollectorFits
  BY <1>20, GcStep
<1>21. ASSUME NEW w \in Writers, Commit(w) PROVE CollectorFits
  BY <1>21, <1>a DEF Commit
<1>22. ASSUME NEW w \in Writers, Resolve(w) PROVE CollectorFits
  BY <1>22, <1>a DEF Resolve
<1>23. ASSUME NEW w \in Writers, Land(w) PROVE CollectorFits
  BY <1>23, <1>a DEF Land
<1>24. ASSUME NEW w \in Writers, SyncStalls(w) PROVE CollectorFits
  BY <1>24, <1>a DEF SyncStalls
<1>25. ASSUME NEW w \in Writers, NEW p \in Pods, Pass(w, p) PROVE CollectorFits
  BY <1>25, <1>a DEF Pass
<1>26. ASSUME NEW w \in Writers, NEW p \in Pods, Federate(w, p) PROVE CollectorFits
  BY <1>26, <1>a DEF Federate
<1>27. ASSUME NEW w \in Writers, NEW p \in Pods, Reconcile(w, p) PROVE CollectorFits
  BY <1>27, <1>a DEF Reconcile
<1>28. CASE UNCHANGED vars
  BY <1>28, <1>a DEF vars
<1> QED BY <1>1, <1>2, <1>3, <1>4, <1>5, <1>6, <1>7, <1>8, <1>9, <1>10, <1>11, <1>12,
    <1>13, <1>14, <1>15, <1>16, <1>17, <1>18, <1>19, <1>20, <1>21, <1>22, <1>23, <1>24,
    <1>25, <1>26, <1>27, <1>28
  DEF Next, Execute

-----------------------------------------------------------------------------
(* Type correctness *)

LEMMA InitTyped == Init => Typed
<1> SUFFICES ASSUME Init PROVE Typed
  OBVIOUS
<1> USE DEF Init
<1>1. DocumentOK /\ SelectionOK /\ VectorsOK
  BY Names, BoundsAssumption DEF DocumentOK, Documents, SelectionOK, VectorsOK, Versions
<1>2. JobsOK /\ AskedOK
  BY NoRecordShape DEF JobsOK, AskedOK
<1>3. PodsOK
  BY Names DEF PodsOK, PodRecords
<1>4. ExecutorOK
  BY DEF ExecutorOK, NoExecution, Executors, Steps
<1>5. WriterOK
  BY NoWriterShape DEF WriterOK
<1>6. RestOK
  BY BoundsAssumption DEF RestOK
<1>7. CollectorOK
  BY NoPassShape DEF CollectorOK
<1> QED BY <1>1, <1>2, <1>3, <1>4, <1>5, <1>6, <1>7 DEF Typed

LEMMA TypedStep == Typed /\ [Next]_vars => Typed'
<1> SUFFICES ASSUME Typed, [Next]_vars PROVE Typed'
  OBVIOUS
<1>1. DocumentOK' /\ SelectionOK' /\ VectorsOK' /\ PodsOK'
  BY DocumentStep, SelectionStep, VectorsStep, PodsStep
  DEF DocumentFits, SelectionFits, VectorsFit, PodsFit
<1>2. JobsOK' /\ AskedOK' /\ ExecutorOK' /\ WriterOK' /\ CollectorOK' /\ RestOK'
  BY JobsStep, ExecutorStep, WritersStep, CollectorStep, RestStep
  DEF JobsFit, ExecutorFits, WritersFit, CollectorFits, RestFits
<1> QED BY <1>1, <1>2 DEF Typed

(* The records keep their form through every step of every pod. *)
THEOREM TypeCorrect == Spec => []TypeOK
<1>1. Spec => []Typed
  BY InitTyped, TypedStep, PTL DEF Spec
<1> QED BY <1>1, TypedIsTypeOK, PTL

-----------------------------------------------------------------------------
(* Whom a job waits for *)

(* Who counts as early changes with an insert, a poll, a start, a passed   *)
(* gate and the end of a call.                                             *)
EarlyKept == \A j \in Jobs : jobs'[j].status = "running" =>
                             jobs[j].status = "running" /\ jobs'[j].early = jobs[j].early
EarlyChanges ==
  \/ EarlyKept
  \/ \E j \in Jobs : Insert(j)
  \/ \E p \in Pods : Poll(p) \/ PollFails(p) \/ Crash(p)
  \/ \E w \in Writers : Commit(w) \/ \E p \in Pods : Pass(w, p)

LEMMA FailKeepsEarly ==
  ASSUME Typed, NEW p \in Pods, Owns(p), jobs' = jobs \/ (\E s \in {"completed", "failed"} : jobs' = Finished(Mine(p), s))
  PROVE  EarlyKept
<1>1. CASE jobs' = jobs
  BY <1>1 DEF EarlyKept
<1>2. CASE \E s \in {"completed", "failed"} : jobs' = Finished(Mine(p), s)
  <2>1. PICK s \in {"completed", "failed"} : jobs' = Finished(Mine(p), s)
    BY <1>2
  <2>2. Mine(p) \in Jobs /\ JobsOK
    BY MineIsJob DEF Typed
  <2>3. jobs'[Mine(p)].status = s /\ \A i \in Jobs \ {Mine(p)} : jobs'[i] = jobs[i]
    BY <2>1, <2>2, FinishedShape
  <2> QED BY <2>3 DEF EarlyKept
<1> QED BY <1>1, <1>2

LEMMA EarlyStep ==
  ASSUME Typed, [Next]_vars
  PROVE  EarlyChanges
<1>a. ASSUME jobs' = jobs PROVE EarlyKept
  BY <1>a DEF EarlyKept
<1> USE DEF EarlyChanges
<1>1. ASSUME NEW j \in Jobs, Ask(j) PROVE EarlyChanges
  BY <1>1, <1>a
  DEF Ask
<1>2. ASSUME NEW j \in Jobs, Insert(j) PROVE EarlyChanges
  BY <1>2
<1>3. ASSUME NEW j \in Jobs, Expire(j) PROVE EarlyChanges
  <2>1. /\ \A i \in Jobs \ {j} : jobs'[i] = jobs[i]
        /\ Identity(j) /\ jobs'[j].early = jobs[j].early
    BY <1>3, ExpireShape DEF Typed
  <2> QED BY <2>1 DEF EarlyKept, Identity
<1>4. ASSUME NEW j \in Jobs, RetentionEnds(j) PROVE EarlyChanges
  <2>1. /\ \A i \in Jobs \ {j} : jobs'[i] = jobs[i]
        /\ Identity(j) /\ jobs'[j].early = jobs[j].early
    BY <1>4, RetentionShape DEF Typed
  <2> QED BY <2>1 DEF EarlyKept, Identity
<1>5. ASSUME NEW p \in Pods, NEW j \in Jobs, Claim(p, j) PROVE EarlyChanges
  <2>1. /\ \A i \in Jobs \ {j} : jobs'[i] = jobs[i]
        /\ Identity(j) /\ jobs'[j].early = jobs[j].early
    BY <1>5, ClaimShape DEF Typed
  <2> QED BY <2>1 DEF EarlyKept, Identity
<1>6. ASSUME NEW p \in Pods, Poll(p) PROVE EarlyChanges
  BY <1>6
<1>7. ASSUME NEW p \in Pods, PollFails(p) PROVE EarlyChanges
  BY <1>7
<1>8. ASSUME NEW p \in Pods, Load(p) PROVE EarlyChanges
  BY <1>8, FailKeepsEarly DEF Load, Fail
<1>9. ASSUME NEW p \in Pods, Prepare(p) PROVE EarlyChanges
  BY <1>9, <1>a
  DEF Prepare
<1>10. ASSUME NEW p \in Pods, Sweep(p) PROVE EarlyChanges
  BY <1>10, <1>a
  DEF Sweep
<1>11. ASSUME NEW p \in Pods, Embed(p) PROVE EarlyChanges
  BY <1>11, <1>a
  DEF Embed
<1>12. ASSUME NEW p \in Pods, AwaitWriters(p) PROVE EarlyChanges
  BY <1>12, FailKeepsEarly DEF AwaitWriters, Fail
<1>13. ASSUME NEW p \in Pods, CatchUp(p) PROVE EarlyChanges
  BY <1>13, <1>a
  DEF CatchUp
<1>14. ASSUME NEW p \in Pods, DeleteRemoved(p) PROVE EarlyChanges
  BY <1>14, <1>a
  DEF DeleteRemoved
<1>15. ASSUME NEW p \in Pods, CommitGeneration(p) PROVE EarlyChanges
  BY <1>15, FailKeepsEarly DEF CommitGeneration, Fail
<1>16. ASSUME NEW p \in Pods, Complete(p) PROVE EarlyChanges
  BY <1>16, FailKeepsEarly DEF Complete
<1>17. ASSUME NEW p \in Pods, LeaseLost(p) PROVE EarlyChanges
  BY <1>17, <1>a
  DEF LeaseLost
<1>18. ASSUME NEW p \in Pods, SweepFails(p) PROVE EarlyChanges
  BY <1>18, FailKeepsEarly DEF SweepFails, Fail
<1>19. ASSUME NEW p \in Pods, Crash(p) PROVE EarlyChanges
  BY <1>19
<1>20. ASSUME NEW p \in Pods, GcRead(p) \/ Gc(p) \/ GcFails(p) PROVE EarlyChanges
  BY <1>20, <1>a, GcKeeps
<1>21. ASSUME NEW w \in Writers, Commit(w) PROVE EarlyChanges
  BY <1>21
<1>22. ASSUME NEW w \in Writers, Resolve(w) PROVE EarlyChanges
  BY <1>22, <1>a
  DEF Resolve
<1>23. ASSUME NEW w \in Writers, Land(w) PROVE EarlyChanges
  BY <1>23, <1>a
  DEF Land
<1>24. ASSUME NEW w \in Writers, SyncStalls(w) PROVE EarlyChanges
  BY <1>24, <1>a
  DEF SyncStalls
<1>25. ASSUME NEW w \in Writers, NEW p \in Pods, Pass(w, p) PROVE EarlyChanges
  BY <1>25
<1>26. ASSUME NEW w \in Writers, NEW p \in Pods, Federate(w, p) PROVE EarlyChanges
  BY <1>26, <1>a
  DEF Federate
<1>27. ASSUME NEW w \in Writers, NEW p \in Pods, Reconcile(w, p) PROVE EarlyChanges
  BY <1>27, <1>a
  DEF Reconcile
<1>28. CASE UNCHANGED vars
  BY <1>28, <1>a
  DEF vars
<1> QED BY <1>1, <1>2, <1>3, <1>4, <1>5, <1>6, <1>7, <1>8, <1>9, <1>10, <1>11, <1>12,
    <1>13, <1>14, <1>15, <1>16, <1>17, <1>18, <1>19, <1>20, <1>21, <1>22, <1>23, <1>24,
    <1>25, <1>26, <1>27, <1>28
  DEF Next, Execute

LEMMA EmptyStays ==
  ASSUME Typed, [Next]_vars, NEW j \in Jobs, Running(j), Running(j)', jobs[j].early = {}
  PROVE  jobs'[j].early = {}
<1>0. jobs[j] # NoRecord
  BY NoRecordShape DEF Running
<1>1. CASE \E i \in Jobs : Insert(i)
  BY <1>0, <1>1, InsertShape DEF Insert, Typed, AskedOK
<1>2. CASE \E p \in Pods : Poll(p) \/ PollFails(p)
  BY <1>2, HeardFits DEF Poll, PollFails
<1>3. CASE \E p \in Pods : Crash(p)
  BY <1>3, CrashFits
<1>4. CASE \E w \in Writers : Commit(w)
  BY <1>4, EndedFits DEF Commit
<1>5. CASE \E w \in Writers, p \in Pods : Pass(w, p)
  BY <1>5, PassFits
<1>6. CASE EarlyKept
  BY <1>6 DEF EarlyKept, Running
<1> QED BY <1>1, <1>2, <1>3, <1>4, <1>5, <1>6, EarlyStep DEF EarlyChanges

(* A pod that polled stays heard, until the job ends. *)
LEMMA PodsStay ==
  ASSUME Typed, [Next]_vars, NEW j \in Jobs, Running(j), jobs'[j].status = "running",
         jobs[j].early \cap Pods = {}
  PROVE  jobs'[j].early \cap Pods = {}
<1>0. jobs[j] # NoRecord /\ Pods \cap Writers = {}
  BY NoRecordShape, DisjointAssumption DEF Running
<1>1. CASE \E i \in Jobs : Insert(i)
  BY <1>0, <1>1, InsertShape DEF Insert, Typed, AskedOK
<1>2. CASE \E p \in Pods : Poll(p) \/ PollFails(p)
  <2>1. PICK p \in Pods : jobs' = Heard(p) /\ UNCHANGED asked
    BY <1>2 DEF Poll, PollFails
  <2>2. jobs'[j].early = jobs[j].early \ {p}
    BY <2>1, HeardFits
  <2> QED BY <2>2
<1>3. CASE \E p \in Pods : Crash(p)
  BY <1>3, CrashFits
<1>4. CASE \E w \in Writers : Commit(w)
  <2>1. PICK w \in Writers : jobs' = Ended(w) /\ UNCHANGED asked
    BY <1>4 DEF Commit
  <2>2. jobs'[j].early = jobs[j].early \ {w}
    BY <2>1, EndedFits
  <2> QED BY <2>2
<1>5. CASE \E w \in Writers, p \in Pods : Pass(w, p)
  BY <1>0, <1>5, PassFits
<1>6. CASE EarlyKept
  BY <1>6 DEF EarlyKept, Running
<1> QED BY <1>1, <1>2, <1>3, <1>4, <1>5, <1>6, EarlyStep DEF EarlyChanges

(* A pod that collects is not heard by a job that came meanwhile. *)
LEMMA StaysEarly ==
  ASSUME Typed, [Next]_vars, NEW p \in Pods, Collecting(p), NEW j \in Jobs,
         Running(j) => p \in jobs[j].early, jobs'[j].status = "running"
  PROVE  p \in jobs'[j].early
<1>0. Pods \cap Writers = {}
  BY DisjointAssumption
<1>1. CASE Insert(j)
  BY <1>1, InsertShape
<1>2. CASE Running(j)
  <2>0. jobs[j] # NoRecord /\ p \in jobs[j].early
    BY <1>2, NoRecordShape DEF Running
  <2>1. CASE \E i \in Jobs : Insert(i)
    BY <2>0, <2>1, InsertShape DEF Insert, Typed, AskedOK
  <2>2. CASE \E q \in Pods : Poll(q) \/ PollFails(q)
    <3>1. PICK q \in Pods : q # p /\ jobs' = Heard(q) /\ UNCHANGED asked
      BY <2>2 DEF Poll, PollFails
    <3>2. jobs'[j].early = jobs[j].early \ {q}
      BY <3>1, HeardFits
    <3> QED BY <2>0, <3>1, <3>2
  <2>3. CASE \E q \in Pods : Crash(q)
    <3>1. PICK q \in Pods : jobs'[j].early = jobs[j].early \ {w \in Writers : writer[w].pod = q}
      BY <2>3, CrashFits
    <3> QED BY <1>0, <2>0, <3>1
  <2>4. CASE \E w \in Writers : Commit(w)
    <3>1. PICK w \in Writers : jobs' = Ended(w) /\ UNCHANGED asked
      BY <2>4 DEF Commit
    <3>2. jobs'[j].early = jobs[j].early \ {w}
      BY <3>1, EndedFits
    <3> QED BY <1>0, <2>0, <3>2
  <2>5. CASE \E w \in Writers, q \in Pods : Pass(w, q)
    BY <2>0, <2>5, PassFits
  <2>6. CASE EarlyKept
    BY <2>0, <2>6 DEF EarlyKept
  <2> QED BY <2>1, <2>2, <2>3, <2>4, <2>5, <2>6, EarlyStep DEF EarlyChanges
<1>3. Running(j) \/ Insert(j)
  BY JobsStep DEF JobsFit, JobStep, Kept, Identity, Ends, Running
<1> QED BY <1>1, <1>2, <1>3

CatchingUp(p) == Owns(p) /\ executor[p].step \in {"catchup", "remove", "commit"}
(* Who begins to catch up has waited for all who were early, but for the  *)
(* pods that collect; which is remembered.                                *)
LEMMA CatchStep ==
  ASSUME Typed, [Next]_vars, NEW p \in Pods, CatchingUp(p)'
  PROVE  /\ Owns(p) /\ executor'[p].job = Mine(p) /\ Mine(p) \in Jobs
         /\ Running(Mine(p)) /\ jobs'[Mine(p)].status = "running"
         /\ \/ CatchingUp(p)
            \/ /\ AwaitWriters(p) /\ ~Federating
               /\ "unheard" \notin causes' => jobs[Mine(p)].early = {}
<1>1. Owns(p)' /\ executor'[p].step \in {"catchup", "remove", "commit"}
  BY DEF CatchingUp
<1>2. Owns(p) /\ executor'[p].job = Mine(p) /\ Mine(p) \in Jobs /\ Running(Mine(p))
  BY <1>1, OwnsStep, MineIsJob, OwnsMeans DEF Typed, Mine, Running
<1>3. jobs'[Mine(p)].status = "running"
  BY <1>1, <1>2 DEF Owns, Active, Running
<1>4. Edge(p)
  BY ExecutorStep DEF ExecutorFits
<1>5. CASE AwaitWriters(p) /\ DelayOver(Mine(p)) /\ ~Federating
  <2>1. causes' = causes \cup Unheard(Mine(p))
    BY <1>5 DEF AwaitWriters
  <2>2. "unheard" \notin causes' => jobs[Mine(p)].early = {}
    BY <1>5, <2>1 DEF Unheard, DelayOver
  <2> QED BY <1>2, <1>3, <1>5, <2>2
<1> QED BY <1>1, <1>2, <1>3, <1>4, <1>5
        DEF Edge, CatchingUp, CatchUp, DeleteRemoved, At, Mine

-----------------------------------------------------------------------------
(* One job completes of those that start from one generation *)

Working(p) == Owns(p) /\ executor[p].step \notin {"load", "grace"}

(* The generations that were selected so far, each the one before it.      *)
Led(past) ==
  /\ selection \in past
  /\ \A j \in past \cap Jobs : jobs[j].status # "none" /\ jobs[j].previous \in past \ {selection}
  /\ \A i, j \in past \cap Jobs : jobs[i].previous = jobs[j].previous => i = j
  /\ \A j \in Jobs : /\ jobs[j].status = "completed" => j \in past
                     /\ jobs[j].status # "none" => jobs[j].previous \in past
  /\ \A g \in past : g = selection \/ \E k \in past \cap Jobs : jobs[k].previous = g
(* A run that may still switch works for a job that was never selected. *)
Awaits(past) ==
  \A p \in Pods : /\ Working(p) => Mine(p) \notin past
                  /\ At(p, "grace") => Mine(p) \in past
Seen(past) ==
  /\ \A p \in Pods : pods[p].generation \in past
  /\ \A w \in Writers : Landing(w) => writer[w].into \in past
Quiet == causes \cap {"unheard", "outlived"} = {}
(* A run that catches up has been heard by all pods; so it stays.          *)
Polled(past) ==
  Quiet => /\ \A k \in past \cap Jobs : Running(k) => jobs[k].early \cap Pods = {}
           /\ \A p \in Pods : CatchingUp(p) => jobs[Mine(p)].early \cap Pods = {}
NotFailed == selection \in Jobs => jobs[selection].status \in {"running", "completed"}
Chain(past) == Led(past) /\ Awaits(past) /\ Seen(past) /\ Polled(past)
History == NotFailed /\ \E past \in SUBSET Generations : Chain(past)

LEMMA JobCourse ==
  ASSUME Typed, [Next]_vars, NEW j \in Jobs
  PROVE  /\ jobs[j].status # "none" => jobs'[j].status # "none" /\ jobs'[j].previous = jobs[j].previous
         /\ jobs[j].previous # NoJob => jobs'[j].previous = jobs[j].previous
         /\ jobs[j].status \in {"completed", "failed"} => jobs'[j].status = jobs[j].status
         /\ \/ jobs'[j].status = jobs[j].status /\ (jobs'[j].recent = jobs[j].recent \/ RetentionEnds(j))
            \/ jobs[j].status = "none" /\ jobs'[j].status = "running"
            \/ \E p \in Pods : Ends(p, j)
<1>1. JobStep(j)
  BY JobsStep DEF JobsFit
<1>2. CASE Insert(j) /\ jobs[j] = NoRecord /\ jobs'[j].status = "running"
  BY <1>2, NoRecordShape
<1>3. CASE \E p \in Pods : Ends(p, j)
  <2>1. PICK p \in Pods : Ends(p, j)
    BY <1>3
  <2>2. jobs[j].status = "running"
    BY <2>1, OwnsMeans DEF Ends
  <2> QED BY <2>1, <2>2 DEF Ends
<1> QED BY <1>1, <1>2, <1>3 DEF JobStep, Kept, Identity

LEMMA WorkingStep ==
  ASSUME Typed, [Next]_vars, NEW p \in Pods, Working(p)'
  PROVE  /\ Owns(p) /\ executor'[p].job = executor[p].job /\ Mine(p) \in Jobs
         /\ Working(p) \/ (Load(p) /\ selection = jobs[Mine(p)].previous)
<1>1. Owns(p)' /\ executor'[p].step \notin {"load", "grace"}
  BY DEF Working
<1>2. Owns(p) /\ executor'[p].job = executor[p].job
  BY <1>1, OwnsStep
<1>3. Mine(p) \in Jobs
  BY <1>2, MineIsJob DEF Typed
<1>4. Edge(p) /\ ExecutorOK'
  BY ExecutorStep DEF ExecutorFits
<1>5. executor'[p].step # "idle"
  BY <1>2, <1>3, <1>4, Names DEF ExecutorOK, Mine
<1>6. CASE executor'[p].step = "drop" /\ Load(p) /\ selection = jobs[executor[p].job].previous
  BY <1>2, <1>3, <1>6 DEF Mine
<1>7. CASE executor'[p] = executor[p]
  BY <1>1, <1>2, <1>3, <1>7 DEF Working
<1>8. CASE Prepare(p) \/ Sweep(p) \/ Embed(p) \/ AwaitWriters(p) \/ CatchUp(p) \/ DeleteRemoved(p)
  BY <1>2, <1>3, <1>8 DEF Working, Prepare, Sweep, Embed, AwaitWriters, CatchUp, DeleteRemoved, At
<1> QED BY <1>1, <1>4, <1>5, <1>6, <1>7, <1>8 DEF Edge

(* A run in its grace period has switched, or found that it had. *)
LEMMA GraceStep ==
  ASSUME Typed, [Next]_vars, NEW p \in Pods, executor'[p].step = "grace"
  PROVE  \/ executor'[p] = executor[p]
         \/ executor'[p].job \in {selection, selection'}
<1>1. Edge(p)
  BY ExecutorStep DEF ExecutorFits
<1> QED BY <1>1 DEF Edge

LEMMA ServedStep ==
  ASSUME Typed, [Next]_vars, NEW p \in Pods
  PROVE  pods'[p].generation \in {pods[p].generation, selection}
BY PodsStep DEF PodsFit, PodStep

LEMMA SwitchMeans ==
  ASSUME Typed, NEW p \in Pods, CommitGeneration(p), Switches(Mine(p))
  PROVE  /\ Mine(p) \in Jobs /\ Owns(p) /\ Working(p) /\ jobs[Mine(p)].status = "running"
         /\ jobs[Mine(p)].previous = selection /\ selection' = Mine(p) /\ jobs' = jobs
         /\ executor'[p].step = "grace" /\ executor'[p].job = executor[p].job
         /\ \A q \in Pods \ {p} : executor'[q] = executor[q]
         /\ UNCHANGED <<document, vectors, pods, writer, causes>>
<1>1. /\ At(p, "commit") /\ Owns(p) /\ Goto(p, "grace") /\ selection' = Mine(p) /\ jobs' = jobs
      /\ jobs[Mine(p)].previous = selection /\ UNCHANGED <<document, vectors, pods, writer, causes>>
  BY DEF CommitGeneration, Switches
<1>2. executor[p].step # "idle" /\ "grace" \in Steps \ {"idle"}
  BY <1>1 DEF At, Steps, Fenced
<1>3. /\ executor'[p].step = "grace" /\ executor'[p].job = executor[p].job
      /\ \A q \in Pods \ {p} : executor'[q] = executor[q]
  BY <1>1, <1>2, GotoFits DEF Typed
<1> QED BY <1>1, <1>3, MineIsJob, OwnsMeans DEF Typed, Working, At

LEMMA HistoryStays ==
  ASSUME Typed, [Next]_vars, NotFailed, NEW past \in SUBSET Generations, Chain(past),
         selection' = selection
  PROVE  Chain(past)' /\ NotFailed'
<1> USE DEF Chain
<1>1. ASSUME NEW j \in past \cap Jobs
      PROVE  jobs[j].status # "none" /\ jobs'[j].status # "none" /\ jobs'[j].previous = jobs[j].previous
  BY JobCourse DEF Led
<1>2. ASSUME NEW j \in Jobs, jobs'[j].status = "completed" PROVE j \in past
  <2>1. CASE jobs[j].status = "completed"
    BY <2>1 DEF Led
  <2>2. CASE \E p \in Pods : Ends(p, j)
    <3>1. PICK p \in Pods : Ends(p, j)
      BY <2>2
    <3>2. Complete(p) /\ Mine(p) = j
      BY <1>2, <3>1 DEF Ends
    <3> QED BY <3>2 DEF Complete, Awaits
  <2> QED BY <1>2, <2>1, <2>2, JobCourse
<1>a. ASSUME NEW j \in Jobs, jobs'[j].status # "none" PROVE jobs'[j].previous \in past
  <2>1. CASE jobs[j].status # "none"
    BY <2>1, JobCourse DEF Led
  <2>2. CASE jobs[j].status = "none"
    <3>1. JobStep(j)
      BY JobsStep DEF JobsFit
    <3>2. \A q \in Pods : ~Ends(q, j)
      BY <2>2, OwnsMeans DEF Ends
    <3>3. Insert(j) /\ jobs'[j].previous = selection
      BY <1>a, <2>2, <3>1, <3>2 DEF JobStep, Kept, Identity
    <3> QED BY <3>3 DEF Led
  <2> QED BY <2>1, <2>2
<1>3. Led(past)'
  BY <1>1, <1>2, <1>a DEF Led
<1>4. ASSUME NEW p \in Pods, Working(p)' PROVE executor'[p].job \notin past
  <2>1. /\ Owns(p) /\ executor'[p].job = Mine(p) /\ Mine(p) \in Jobs
        /\ Working(p) \/ (Load(p) /\ selection = jobs[Mine(p)].previous)
    BY <1>4, WorkingStep DEF Mine
  <2> QED BY <2>1 DEF Awaits, Led
<1>5. ASSUME NEW p \in Pods, executor'[p].step = "grace" PROVE executor'[p].job \in past
  BY <1>5, GraceStep DEF Awaits, Led, At, Mine
<1>6. Awaits(past)'
  BY <1>4, <1>5 DEF Awaits, At, Mine
<1>7. \A p \in Pods : pods'[p].generation \in past
  BY ServedStep DEF Seen, Led
<1>8. ASSUME NEW w \in Writers, writer'[w].pc = "landing" PROVE writer'[w].into \in past
  <2>1. WriterStep(w)
    BY WritersStep DEF WritersFit
  <2> QED BY <1>8, <2>1 DEF WriterStep, Seen, Landing
<1>9. Seen(past)'
  BY <1>7, <1>8 DEF Seen, Landing
<1>10. ASSUME Quiet' PROVE Quiet
  BY <1>10, RestStep DEF Quiet, RestFits
<1>11. Polled(past)'
  <2> SUFFICES ASSUME Quiet'
               PROVE  /\ \A k \in past \cap Jobs : jobs'[k].status = "running" => jobs'[k].early \cap Pods = {}
                      /\ \A p \in Pods : CatchingUp(p)' => jobs'[executor'[p].job].early \cap Pods = {}
    BY DEF Polled, Running, Mine
  <2>1. ASSUME NEW k \in past \cap Jobs, jobs'[k].status = "running"
        PROVE  jobs'[k].early \cap Pods = {}
    <3>1. Running(k)
      BY <1>1, <2>1, JobCourse DEF Ends, Complete, Running
    <3> QED BY <1>10, <2>1, <3>1, PodsStay DEF Polled
  <2>2. ASSUME NEW p \in Pods, CatchingUp(p)' PROVE jobs'[executor'[p].job].early \cap Pods = {}
    <3>1. jobs[Mine(p)].early \cap Pods = {}
      BY <1>10, <2>2, CatchStep DEF Polled, Quiet
    <3> QED BY <2>2, <3>1, CatchStep, PodsStay
  <2> QED BY <2>1, <2>2
<1>12. ASSUME selection \in Jobs PROVE jobs'[selection].status \in {"running", "completed"}
  <2>1. jobs[selection].status \in {"running", "completed"}
    BY <1>12 DEF NotFailed
  <2>2. ASSUME NEW p \in Pods, Ends(p, selection), jobs'[selection].status = "failed" PROVE FALSE
    <3>1. /\ Owns(p) /\ Mine(p) = selection /\ executor[p].step \in {"embed", "wait", "catchup", "commit"}
      BY <2>2 DEF Ends
    <3>2. Working(p)
      BY <3>1 DEF Working
    <3> QED BY <3>1, <3>2 DEF Awaits, Led
  <2> QED BY <1>12, <2>1, <2>2, JobCourse DEF Ends
<1>13. NotFailed'
  BY <1>12 DEF NotFailed
<1> QED BY <1>3, <1>6, <1>9, <1>11, <1>13

LEMMA HistoryGrows ==
  ASSUME Typed, NEW past \in SUBSET Generations, Chain(past), NEW p \in Pods,
         CommitGeneration(p), NEW m, m = Mine(p), Switches(m)
  PROVE  Chain(past \cup {m})' /\ NotFailed'
<1> USE DEF Chain
<1> DEFINE now == past \cup {m}
<1>1. /\ m \in Jobs /\ Owns(p) /\ Working(p) /\ jobs[m].status = "running"
      /\ jobs[m].previous = selection /\ selection' = m /\ jobs' = jobs
      /\ executor'[p].step = "grace" /\ executor'[p].job = m
      /\ \A q \in Pods \ {p} : executor'[q] = executor[q]
      /\ UNCHANGED <<pods, writer>>
  BY SwitchMeans DEF Mine
<1>2. m \notin past
  BY <1>1 DEF Awaits
<1>3. Led(now)'
  <2>1. \A j \in now \cap Jobs : jobs[j].status # "none" /\ jobs[j].previous \in now \ {m}
    BY <1>1, <1>2 DEF Led
  <2>2. \A i, j \in now \cap Jobs : jobs[i].previous = jobs[j].previous => i = j
    BY <1>1, <1>2 DEF Led
  <2>3. \A j \in Jobs : jobs[j].status = "completed" => j \in now
    BY <1>1 DEF Led
  <2>4. \A g \in now : g = m \/ \E k \in now \cap Jobs : jobs[k].previous = g
    BY <1>1 DEF Led
  <2> QED BY <1>1, <2>1, <2>2, <2>3, <2>4 DEF Led
<1>4. ASSUME NEW q \in Pods
      PROVE  /\ Working(q)' => executor'[q].job \notin now
             /\ executor'[q].step = "grace" => executor'[q].job \in now
  <2>1. CASE q = p
    BY <1>1, <2>1 DEF Working
  <2>2. CASE q # p
    <3>1. executor'[q] = executor[q] /\ jobs' = jobs
      BY <1>1, <2>2
    <3>2. Working(q)' => Working(q)
      BY <3>1 DEF Working, Owns, Active, Running
    <3>3. Owns(q) => Mine(q) # m
      BY <1>1, <2>2, OneOwner
    <3> QED BY <3>1, <3>2, <3>3 DEF Awaits, Working, Mine, At
  <2> QED BY <2>1, <2>2
<1>5. Awaits(now)'
  BY <1>4 DEF Awaits, Mine, At
<1>6. Seen(now)'
  BY <1>1 DEF Seen, Landing
<1>7. Polled(now)'
  <2>1. CatchingUp(p) /\ Quiet' = Quiet /\ jobs' = jobs
    BY <1>1, SwitchMeans DEF CatchingUp, CommitGeneration, At, Quiet
  <2>2. ASSUME NEW q \in Pods, CatchingUp(q)' PROVE CatchingUp(q) /\ executor'[q].job = Mine(q)
    BY <1>1, <2>2 DEF CatchingUp, Owns, Active, Running, Mine
  <2> QED BY <2>1, <2>2 DEF Polled, Running, Mine
<1>8. NotFailed'
  BY <1>1 DEF NotFailed
<1> QED BY <1>3, <1>5, <1>6, <1>7, <1>8

LEMMA InitHistory == Init => History
<1> SUFFICES ASSUME Init PROVE History
  OBVIOUS
<1> USE DEF Init
<1>1. Led({Base}) /\ NotFailed
  BY Names, NoRecordShape DEF Led, NotFailed
<1>2. Awaits({Base})
  BY DEF Awaits, Working, Owns, NoExecution, At
<1>3. Seen({Base}) /\ Polled({Base})
  BY NoWriterShape, Names DEF Seen, Polled, Landing, CatchingUp, Owns, NoExecution
<1> QED BY <1>1, <1>2, <1>3, Names DEF History, Chain

LEMMA HistoryStep == Typed /\ History /\ [Next]_vars => History'
<1> SUFFICES ASSUME Typed, History, [Next]_vars PROVE History'
  OBVIOUS
<1>1. NotFailed
  BY DEF History
<1>2. PICK past \in SUBSET Generations : Chain(past)
  BY DEF History
<1>3. CASE selection' = selection
  BY <1>1, <1>2, <1>3, HistoryStays DEF History
<1>4. CASE \E p \in Pods : CommitGeneration(p) /\ Switches(Mine(p)) /\ selection' = Mine(p)
  <2>1. PICK p \in Pods : CommitGeneration(p) /\ Switches(Mine(p)) /\ selection' = Mine(p)
    BY <1>4
  <2>2. PICK m : m = Mine(p)
    OBVIOUS
  <2>3. Chain(past \cup {m})' /\ NotFailed'
    BY <1>2, <2>1, <2>2, HistoryGrows
  <2>4. past \cup {m} \in SUBSET Generations
    BY <1>2, <2>1, <2>2, SwitchMeans, Names
  <2> QED BY <2>3, <2>4 DEF History
<1> QED BY <1>3, <1>4, SelectionStep DEF SelectionFits

LEMMA HistoryMeans == History => OneWinner
BY DEF History, Chain, Led, NotFailed, OneWinner

(* Reindexes follow one another: of two that started from one generation   *)
(* the second to switch is refused, whatever leases were lost meanwhile,   *)
(* and who switched is not counted as failed while it is selected.         *)
THEOREM Winner == Spec => []OneWinner
<1>1. Spec => [](Typed /\ History)
  BY InitTyped, TypedStep, InitHistory, HistoryStep, PTL DEF Spec
<1> QED BY <1>1, HistoryMeans, PTL

-----------------------------------------------------------------------------
(* What a pass goes by stays true while it goes on *)

(* Pod p has not polled since a job came that runs. *)
CameMeanwhile(p, k) == Running(k) => p \in jobs[k].early
(* A job whose generation p's pass did not see came during the pass. *)
SparesWhatItSaw(p) ==
  /\ collector[p].step = "list" =>
       \A k \in Jobs : jobs[k].previous \notin collector[p].spared => CameMeanwhile(p, k)
  /\ collector[p].step \in {"check", "drop"} =>
       \A g \in collector[p].left :
         /\ g # collector[p].active
         /\ \A k \in Jobs : jobs[k].previous = g => CameMeanwhile(p, k)
DatesWhatItSaw(p) ==
  collector[p].step \in {"check", "drop"} =>
    \A j \in collector[p].old : jobs[j].status = "completed" /\ ~jobs[j].recent
(* At most one switch comes within a pass, and its job is still there. *)
ActiveOrNext(p) ==
  Quiet /\ Collecting(p) =>
    \/ selection = collector[p].active
    \/ /\ selection \in Jobs /\ Running(selection)
       /\ \A k \in Jobs : jobs[k].previous = selection => CameMeanwhile(p, k)
(* Nobody needs what a pass drops. *)
Unneeded(g) ==
  /\ Over(g)
  /\ Quiet => /\ g # selection
              /\ \A q \in Pods : pods[q].generation = g => Unprotected(g) \/ Overdue(g)
Doomed(p) == collector[p].step = "drop" => Unneeded(collector[p].victim)
Passing ==
  \A p \in Pods : SparesWhatItSaw(p) /\ DatesWhatItSaw(p) /\ ActiveOrNext(p) /\ Doomed(p)

LEMMA UnprotectedStays ==
  ASSUME Typed, [Next]_vars, NEW g, Unprotected(g)
  PROVE  Unprotected(g)'
<1>1. PICK j \in Jobs, k \in Jobs :
        jobs[j].previous = g /\ jobs[j].status = "failed" /\ jobs[k].previous = j
  BY DEF Unprotected
<1>2. jobs'[j].previous = g /\ jobs'[j].status = "failed" /\ jobs'[k].previous = j
  BY <1>1, JobCourse, Names
<1> QED BY <1>2 DEF Unprotected

LEMMA DatedStays ==
  ASSUME Typed, [Next]_vars, NEW j \in Jobs, jobs[j].status = "completed", ~jobs[j].recent
  PROVE  jobs'[j].status = "completed" /\ ~jobs'[j].recent /\ jobs'[j].previous = jobs[j].previous
<1>1. ~ \E p \in Pods : Ends(p, j)
  BY OwnsMeans DEF Ends
<1> QED BY <1>1, JobCourse DEF RetentionEnds

LEMMA OverdueStays ==
  ASSUME Typed, [Next]_vars, NEW g, Overdue(g)
  PROVE  Overdue(g)'
BY DatedStays DEF Overdue, Supersedes

(* Who came meanwhile stays, and so does who comes now. *)
LEMMA MeanwhileStays ==
  ASSUME Typed, [Next]_vars, NEW p \in Pods, Collecting(p), NEW k \in Jobs,
         jobs[k].previous = jobs'[k].previous => CameMeanwhile(p, k)
  PROVE  CameMeanwhile(p, k)'
<1> SUFFICES ASSUME jobs'[k].status = "running" PROVE p \in jobs'[k].early
  BY DEF CameMeanwhile, Running
<1>1. Running(k) => jobs'[k].previous = jobs[k].previous
  BY JobCourse DEF Running
<1> QED BY <1>1, StaysEarly DEF CameMeanwhile

LEMMA SparesStep ==
  ASSUME Typed, [Next]_vars, NEW p \in Pods, SparesWhatItSaw(p)
  PROVE  SparesWhatItSaw(p)'
<1>1. PassStep(p)
  BY CollectorStep DEF CollectorFits
<1>2. CASE collector'[p] = collector[p]
  <2> SUFFICES ASSUME Collecting(p) PROVE SparesWhatItSaw(p)'
    BY <1>2 DEF SparesWhatItSaw, Collecting
  <2> QED BY <1>2, MeanwhileStays DEF SparesWhatItSaw
<1>3. CASE GcProtect(p) /\ collector'[p].step = "list" /\ collector'[p].spared = Spared /\ jobs' = jobs
  BY <1>3 DEF SparesWhatItSaw, Spared, CameMeanwhile, Running
<1>4. CASE /\ GcList(p) /\ collector'[p].step = "check" /\ jobs' = jobs
           /\ collector'[p].active = collector[p].active
           /\ collector'[p].left \cap ({collector[p].active} \cup collector[p].spared) = {}
  BY <1>4 DEF SparesWhatItSaw, CameMeanwhile, Running, GcList
<1>5. CASE /\ collector[p].step \in {"check", "drop"} /\ collector'[p].step \in {"check", "drop"}
           /\ collector'[p].active = collector[p].active
           /\ collector'[p].left \subseteq collector[p].left /\ jobs' = jobs
  BY <1>5 DEF SparesWhatItSaw, CameMeanwhile, Running
<1> QED BY <1>1, <1>2, <1>3, <1>4, <1>5 DEF PassStep, SparesWhatItSaw, GcCheck

LEMMA DatesStep ==
  ASSUME Typed, [Next]_vars, NEW p \in Pods, DatesWhatItSaw(p)
  PROVE  DatesWhatItSaw(p)'
<1>1. PassStep(p) /\ CollectorOK' /\ CollectorOK
  BY CollectorStep DEF CollectorFits, Typed
<1>2. ASSUME NEW j \in collector[p].old, jobs[j].status = "completed", ~jobs[j].recent
      PROVE  jobs'[j].status = "completed" /\ ~jobs'[j].recent
  <2>1. j \in Jobs
    BY <1>1 DEF CollectorOK, Passes
  <2> QED BY <1>2, <2>1, DatedStays
<1>3. CASE GcList(p) /\ jobs' = jobs
  BY <1>1, <1>3 DEF PassStep, DatesWhatItSaw, GcList, GcCheck
<1> QED BY <1>1, <1>2, <1>3 DEF PassStep, DatesWhatItSaw, GcCheck

(* A switch finds its job polled by all pods: two of them, in a row, would *)
(* have to wait for a pod whose pass goes on.                              *)
LEMMA ActiveStep ==
  ASSUME Typed, [Next]_vars, History, NotFailed', NEW p \in Pods, ActiveOrNext(p)
  PROVE  ActiveOrNext(p)'
<1> SUFFICES ASSUME Quiet', Collecting(p)', selection' # collector'[p].active
             PROVE  /\ selection' \in Jobs /\ jobs'[selection'].status = "running"
                    /\ \A k \in Jobs : jobs'[k].previous = selection' => CameMeanwhile(p, k)'
  BY DEF ActiveOrNext, Running
<1>1. PassStep(p)
  BY CollectorStep DEF CollectorFits
<1>2. Quiet
  BY RestStep DEF Quiet, RestFits
<1>3. Collecting(p) /\ collector'[p].active = collector[p].active
  BY <1>1 DEF PassStep, Collecting, GcRead, GcUnchanged
<1>4. CASE selection' = selection
  <2>1. /\ selection \in Jobs /\ Running(selection)
        /\ \A k \in Jobs : jobs[k].previous = selection => CameMeanwhile(p, k)
    BY <1>2, <1>3, <1>4 DEF ActiveOrNext
  <2>2. ASSUME NEW q \in Pods, Ends(q, selection) PROVE FALSE
    <3>1. Complete(q)
      BY <1>4, <2>1, <2>2 DEF Ends, NotFailed
    <3>2. "outlived" \in causes'
      BY <1>3, <1>4, <3>1 DEF Complete, Outlived
    <3> QED BY <3>2 DEF Quiet
  <2>3. jobs'[selection].status = "running"
    BY <2>1, <2>2, JobCourse DEF Running
  <2>4. \A k \in Jobs : jobs'[k].previous = selection => CameMeanwhile(p, k)'
    BY <1>3, <2>1, MeanwhileStays
  <2> QED BY <1>4, <2>1, <2>3, <2>4
<1>5. CASE \E q \in Pods : CommitGeneration(q) /\ Switches(Mine(q)) /\ selection' = Mine(q)
  <2>1. PICK q \in Pods : CommitGeneration(q) /\ Switches(Mine(q)) /\ selection' = Mine(q)
    BY <1>5
  <2>2. PICK m \in Jobs : m = Mine(q)
    BY <2>1, SwitchMeans
  <2>3. /\ Working(q) /\ Owns(q) /\ jobs[m].status = "running" /\ jobs[m].previous = selection
        /\ jobs' = jobs /\ CatchingUp(q)
    BY <2>1, <2>2, SwitchMeans DEF CatchingUp, CommitGeneration, At
  <2>4. PICK past \in SUBSET Generations : Chain(past)
    BY DEF History
  <2>5. p \notin jobs[m].early
    BY <1>2, <2>2, <2>3, <2>4 DEF Chain, Polled
  <2>6. selection = collector[p].active
    BY <1>2, <1>3, <2>2, <2>3, <2>5 DEF ActiveOrNext, CameMeanwhile, Running
  <2>7. m \notin past
    BY <2>2, <2>3, <2>4 DEF Chain, Awaits
  <2>8. \A k \in Jobs : jobs[k].previous = m => ~Running(k)
    BY <2>4, <2>7 DEF Chain, Led, Running
  <2> QED BY <2>1, <2>2, <2>3, <2>8 DEF CameMeanwhile, Running
<1> QED BY <1>4, <1>5, SelectionStep DEF SelectionFits

(* What a pass finds superseded for long enough, nobody needs: the pods    *)
(* that search it lag for longer, or the collector could not know.         *)
LEMMA CheckFinds ==
  ASSUME Typed, History, NEW p \in Pods, SparesWhatItSaw(p), DatesWhatItSaw(p), ActiveOrNext(p),
         NEW g \in Jobs, collector[p].step = "check", g \in collector[p].left, Over(g),
         \A j \in Jobs : Supersedes(j, g) => j \in collector[p].old
  PROVE  Unneeded(g)
<1> SUFFICES ASSUME Quiet
             PROVE  /\ g # selection
                    /\ \A q \in Pods : pods[q].generation = g => Unprotected(g) \/ Overdue(g)
  BY DEF Unneeded
<1>1. g # collector[p].active /\ \A k \in Jobs : jobs[k].previous = g => CameMeanwhile(p, k)
  BY DEF SparesWhatItSaw
<1>2. g # selection
  BY <1>1 DEF ActiveOrNext, Collecting, Over, Running
<1>3. ASSUME NEW q \in Pods, pods[q].generation = g PROVE Unprotected(g) \/ Overdue(g)
  <2>1. PICK past \in SUBSET Generations : Chain(past)
    BY DEF History
  <2>2. PICK k \in past \cap Jobs : jobs[k].previous = g
    BY <1>2, <1>3, <2>1 DEF Chain, Seen, Led
  <2>3. jobs[k].status \in {"running", "completed", "failed"}
    BY <2>1, <2>2 DEF Typed, JobsOK, Records, Chain, Led
  <2>4. ~Running(k)
    BY <1>1, <2>1, <2>2 DEF Chain, Polled, CameMeanwhile
  <2>5. CASE jobs[k].status = "completed"
    BY <2>2, <2>5 DEF Overdue, Supersedes, DatesWhatItSaw
  <2>6. CASE jobs[k].status = "failed"
    <3>1. k # selection
      BY <2>2, <2>6 DEF History, NotFailed
    <3>2. \E i \in past \cap Jobs : jobs[i].previous = k
      BY <2>1, <2>2, <3>1 DEF Chain, Led
    <3> QED BY <2>2, <2>6, <3>2 DEF Unprotected
  <2> QED BY <2>3, <2>4, <2>5, <2>6 DEF Running
<1> QED BY <1>2, <1>3

LEMMA UnneededStays ==
  ASSUME Typed, [Next]_vars, NEW g \in Jobs, Unneeded(g)
  PROVE  Unneeded(g)'
<1>1. Over(g)'
  BY JobCourse DEF Unneeded, Over
<1> SUFFICES ASSUME Quiet'
             PROVE  /\ g # selection'
                    /\ \A q \in Pods : pods'[q].generation = g => Unprotected(g)' \/ Overdue(g)'
  BY <1>1 DEF Unneeded
<1>2. Quiet
  BY RestStep DEF Quiet, RestFits
<1>3. g # selection'
  BY <1>2, SelectionStep, SwitchMeans DEF SelectionFits, Unneeded, Over
<1>4. ASSUME NEW q \in Pods, pods'[q].generation = g PROVE Unprotected(g)' \/ Overdue(g)'
  <2>1. Unprotected(g) \/ Overdue(g)
    BY <1>2, <1>4, ServedStep DEF Unneeded
  <2> QED BY <2>1, UnprotectedStays, OverdueStays
<1> QED BY <1>3, <1>4

LEMMA DoomedStep ==
  ASSUME Typed, [Next]_vars, History, NEW p \in Pods,
         SparesWhatItSaw(p), DatesWhatItSaw(p), ActiveOrNext(p), Doomed(p)
  PROVE  Doomed(p)'
<1> SUFFICES ASSUME collector'[p].step = "drop", NEW g, g = collector'[p].victim PROVE Unneeded(g)'
  BY DEF Doomed
<1>1. PassStep(p) /\ g \in Jobs
  BY CollectorStep DEF CollectorFits, CollectorOK
<1>2. CASE collector'[p] = collector[p]
  BY <1>1, <1>2, UnneededStays DEF Doomed
<1>3. CASE /\ GcCheck(p, g) /\ g \in collector[p].left /\ Over(g)
           /\ \A j \in Jobs : Supersedes(j, g) => j \in collector[p].old
  <2>1. collector[p].step = "check"
    BY <1>3 DEF GcCheck
  <2> QED BY <1>1, <1>3, <2>1, CheckFinds, UnneededStays
<1> QED BY <1>1, <1>2, <1>3 DEF PassStep

LEMMA PassingStep == Typed /\ History /\ Passing /\ [Next]_vars => Passing'
<1> SUFFICES ASSUME Typed, History, Passing, [Next]_vars PROVE Passing'
  OBVIOUS
<1>1. NotFailed'
  BY HistoryStep DEF History
<1> QED BY <1>1, SparesStep, DatesStep, ActiveStep, DoomedStep DEF Passing

LEMMA InitPassing == Init => Passing
<1> SUFFICES ASSUME Init, NEW p \in Pods
             PROVE  SparesWhatItSaw(p) /\ DatesWhatItSaw(p) /\ ActiveOrNext(p) /\ Doomed(p)
  BY DEF Passing
<1>1. collector[p].step \in {"idle", "due"} /\ collector[p].old = {}
  BY DEF Init, NextPass, NoPass
<1> QED BY <1>1 DEF SparesWhatItSaw, DatesWhatItSaw, ActiveOrNext, Doomed, Collecting

-----------------------------------------------------------------------------
(* No pod searches a generation that was dropped *)

Filling == {"sweep", "embed", "wait", "catchup", "remove", "commit"}
(* What a run has prepared is there until it is selected.                  *)
Filled == \A p \in Pods : Owns(p) /\ executor[p].step \in Filling => vectors[Mine(p)] # Missing
Found(g) == vectors[g] # Missing \/ Unprotected(g) \/ Overdue(g)
Stocked == Filled /\ (Quiet => vectors[selection] # Missing) /\ ServedGenerationExists

LEMMA RunningIsKept ==
  ASSUME Passing, NEW q \in Pods, GcDrop(q)
  PROVE  ~Running(collector[q].victim)
BY DEF Passing, Doomed, Unneeded, Over, Running, GcDrop

(* Only the collector makes a collection go. *)
LEMMA GoesByDrop ==
  ASSUME Typed, [Next]_vars, NEW g \in Generations, vectors[g] # Missing, vectors'[g] = Missing
  PROVE  \E p \in Pods : GcDrop(p) /\ collector[p].victim = g
<1>1. VectorStep(g)
  BY VectorsStep DEF VectorsFit
<1>2. \A p \in Pods : executor[p].seen # Missing
  BY StepsOnly DEF Typed, Versions, Absent, Missing
<1>3. \A w \in Writers : writer[w].seen # Missing
  BY DEF Typed, WriterOK, WriterStates, Versions, Absent, Missing
<1>4. document.version # Missing /\ Absent # Missing
  BY DEF Typed, DocumentOK, Documents, Versions, Absent, Missing
<1> QED BY <1>1, <1>2, <1>3, <1>4 DEF VectorStep

LEMMA FilledStep ==
  ASSUME Typed, Passing, [Next]_vars, Filled
  PROVE  Filled'
<1> SUFFICES ASSUME NEW p \in Pods, Owns(p)', executor'[p].step \in Filling
             PROVE  vectors'[executor'[p].job] # Missing
  BY DEF Filled, Mine
<1>1. Working(p)' /\ executor'[p].step # "idle"
  BY DEF Working, Filling
<1>2. Owns(p) /\ executor'[p].job = Mine(p) /\ Mine(p) \in Jobs
  BY <1>1, WorkingStep DEF Mine
<1>3. jobs[Mine(p)].status = "running" /\ Mine(p) \in Generations
  BY <1>2, OwnsMeans, Names
<1>4. Edge(p)
  BY ExecutorStep DEF ExecutorFits
<1>5. CASE Prepare(p)
  <2>1. vectors' = [vectors EXCEPT ![Mine(p)] = Absent]
    BY <1>5 DEF Prepare
  <2>2. vectors'[Mine(p)] = Absent
    BY <1>3, <2>1 DEF Typed, VectorsOK
  <2> QED BY <1>2, <2>2 DEF Absent, Missing
<1>6. CASE executor[p].step \in Filling
  <2>1. vectors[Mine(p)] # Missing
    BY <1>2, <1>6 DEF Filled
  <2>2. \A q \in Pods : GcDrop(q) => collector[q].victim # Mine(p)
    BY <1>3, RunningIsKept DEF Running
  <2> QED BY <1>2, <1>3, <2>1, <2>2, GoesByDrop
<1> QED BY <1>1, <1>4, <1>5, <1>6
        DEF Edge, Filling, Sweep, Embed, AwaitWriters, CatchUp, DeleteRemoved, At

LEMMA SelectedStep ==
  ASSUME Typed, Passing, [Next]_vars, Filled, Quiet, vectors[selection] # Missing
  PROVE  vectors'[selection'] # Missing
<1>1. CASE selection' = selection
  <2>1. \A q \in Pods : GcDrop(q) => collector[q].victim # selection
    BY DEF Passing, Doomed, Unneeded, GcDrop
  <2> QED BY <1>1, <2>1, GoesByDrop DEF Typed, SelectionOK
<1>2. CASE \E p \in Pods : CommitGeneration(p) /\ Switches(Mine(p)) /\ selection' = Mine(p)
  <2>1. PICK p \in Pods : CommitGeneration(p) /\ Switches(Mine(p)) /\ selection' = Mine(p)
    BY <1>2
  <2>2. Owns(p) /\ vectors' = vectors /\ executor[p].step \in Filling
    BY <2>1, SwitchMeans DEF CommitGeneration, At, Filling
  <2> QED BY <2>1, <2>2 DEF Filled
<1> QED BY <1>1, <1>2, SelectionStep DEF SelectionFits

LEMMA StockedStep == Typed /\ Passing /\ Stocked /\ [Next]_vars => Stocked'
<1> SUFFICES ASSUME Typed, Passing, Stocked, [Next]_vars PROVE Stocked'
  OBVIOUS
<1>1. Filled'
  BY FilledStep DEF Stocked
<1>2. Quiet' => Quiet
  BY RestStep DEF Quiet, RestFits
<1>3. Quiet' => vectors'[selection'] # Missing
  BY <1>2, SelectedStep DEF Stocked
<1>4. ASSUME Quiet', NEW p \in Pods, NEW h \in Generations, h = pods'[p].generation PROVE Found(h)'
  <2>1. ASSUME h = pods[p].generation PROVE Found(h)'
    <3>1. CASE Unprotected(h) \/ Overdue(h)
      BY <3>1, UnprotectedStays, OverdueStays DEF Found
    <3>2. CASE vectors[h] # Missing /\ vectors'[h] = Missing
      <4>1. PICK q \in Pods : GcDrop(q) /\ collector[q].victim = h
        BY <3>2, GoesByDrop
      <4>2. Unprotected(h) \/ Overdue(h)
        BY <1>2, <1>4, <2>1, <4>1 DEF Passing, Doomed, Unneeded, GcDrop
      <4> QED BY <3>1, <4>2
    <3>3. Found(h)
      BY <1>2, <1>4, <2>1 DEF Stocked, ServedGenerationExists, Found, Quiet
    <3> QED BY <3>1, <3>2, <3>3 DEF Found
  <2>2. CASE h = selection /\ selection' = selection
    BY <1>3, <1>4, <2>2 DEF Found
  <2>3. CASE selection' # selection
    <3>1. pods' = pods
      BY <2>3, SelectionStep, SwitchMeans DEF SelectionFits
    <3> QED BY <1>4, <2>1, <3>1
  <2> QED BY <1>4, <2>1, <2>2, <2>3, ServedStep
<1>5. \A p \in Pods : pods'[p].generation \in Generations
  BY PodsStep DEF PodsFit, PodsOK, PodRecords
<1>6. ServedGenerationExists'
  BY <1>4, <1>5 DEF ServedGenerationExists, Found, Unprotected, Overdue, Supersedes, Quiet
<1> QED BY <1>1, <1>3, <1>6 DEF Stocked

LEMMA InitStocked == Init => Stocked
<1> SUFFICES ASSUME Init PROVE Stocked
  OBVIOUS
<1>1. vectors[Base] # Missing
  BY Names DEF Init, Missing
<1>2. \A p \in Pods : ~Owns(p)
  BY DEF Init, Owns, NoExecution
<1> QED BY <1>1, <1>2 DEF Init, Stocked, Filled, ServedGenerationExists

(* A pod that lags behind the selection still finds the generation that it *)
(* searches, although the collector drops by what it read some time ago:   *)
(* unless the pod lags for longer than the retention, the job that         *)
(* switched away failed because another one switched on meanwhile, or a    *)
(* pass outlived what a switch waits for.                                  *)
THEOREM ServedExists == Spec => []ServedGenerationExists
<1>1. Spec => [](Typed /\ History /\ Passing /\ Stocked)
  BY InitTyped, TypedStep, InitHistory, HistoryStep, InitPassing, PassingStep, InitStocked, StockedStep,
     PTL DEF Spec
<1>2. Stocked => ServedGenerationExists
  BY DEF Stocked
<1> QED BY <1>1, <1>2, PTL

-----------------------------------------------------------------------------
(* The selected generation follows MongoDB *)

NoneOpen == "openAtCatchUp" \notin causes
NoneLate == "lateWrite" \notin causes
ver == document.version

(* What was read of the entity is not newer than the entity. *)
Dated ==
  /\ \A j \in Jobs : Running(j) /\ ver # Absent => jobs[j].since <= ver
  /\ \A w \in Writers : Landing(w) /\ ver # Absent => writer[w].seen <= ver
(* One writer writes vectors at a time, of an entity that is marked until then. *)
Lands ==
  /\ \A w, x \in Writers : Landing(w) /\ Landing(x) => w = x
  /\ \A w \in Writers : Landing(w) => document.marked \/ ver = Absent
(* An open gate leads to the selected generation; before a switch all are closed. *)
OpenFollows == NoneOpen => \A p \in Pods : Closed(p) \/ pods[p].generation = selection
LateRun(p) == Owns(p) /\ executor[p].step \in {"remove", "commit"}
ShutLate == NoneOpen => \A p \in Pods : LateRun(p) => \A q \in Pods : Closed(q)
(* A run has what did not change since its job was inserted. *)
Unchanged(p) == ver # Absent /\ ver = jobs[Mine(p)].since
Embedded ==
  NoneLate => \A p \in Pods : Owns(p) /\ Unchanged(p) =>
    /\ executor[p].step \in {"wait", "catchup"} => vectors[Mine(p)] = ver
    /\ executor[p].step = "embed" => executor[p].seen = ver
(* After the catch-up it has what is not marked, and nobody is about to    *)
(* take the mark away.                                                     *)
CaughtUp ==
  NoneOpen /\ NoneLate => \A p \in Pods : LateRun(p) =>
    \/ ver = Absent \/ vectors[Mine(p)] = ver
    \/ document.marked /\ \A w \in Writers : Landing(w) => writer[w].seen # ver
Follows ==
  NoneOpen /\ NoneLate /\ Quiet /\ ver # Absent =>
    /\ ~document.marked => vectors[selection] = ver
    /\ \A w \in Writers : Landing(w) /\ writer[w].seen = ver /\ writer[w].into # selection
                          => vectors[selection] = ver
Copied == Dated /\ Lands /\ OpenFollows /\ ShutLate /\ Embedded /\ CaughtUp /\ Follows

LEMMA Numbers ==
  /\ Absent = 0 /\ Missing = -1
  /\ \A v \in Versions \cup {Absent} : v \in Nat
BY BoundsAssumption DEF Absent, Missing, Versions

LEMMA VersionTyped ==
  ASSUME Typed
  PROVE  /\ ver \in Nat /\ ver \in Versions \cup {Absent}
         /\ \A j \in Jobs : jobs[j].since \in Nat
         /\ \A w \in Writers : writer[w].seen \in Nat
         /\ \A p \in Pods : executor[p].seen \in Nat
<1>1. ver \in Versions \cup {Absent}
  BY DEF Typed, DocumentOK, Documents, ver
<1>2. \A j \in Jobs : jobs[j].since \in Versions \cup {Absent}
  BY DEF Typed, JobsOK, Records
<1>3. \A w \in Writers : writer[w].seen \in Versions \cup {Absent}
  BY DEF Typed, WriterOK, WriterStates
<1>4. \A p \in Pods : executor[p].seen \in Versions \cup {Absent}
  BY StepsOnly DEF Typed
<1> QED BY <1>1, <1>2, <1>3, <1>4, Numbers

(* The entity gets a newer version, or goes, or stays. *)
LEMMA VersionStep ==
  ASSUME Typed, [Next]_vars
  PROVE  \/ ver' = ver
         \/ ver' = Absent
         \/ /\ ver # Absent /\ ver' = ver + 1 /\ document'.marked
            /\ \E w \in Writers : Commit(w) /\ writer'[w].pc = "sync"
<1>1. CASE document' = document
  BY <1>1 DEF ver
<1>2. CASE document' # document
  BY <1>2, DocumentStep, Numbers DEF DocumentFits, ver
<1> QED BY <1>1, <1>2

LEMMA DatedStep ==
  ASSUME Typed, [Next]_vars, Dated
  PROVE  Dated'
<1>0. ver' \in Nat
  BY DocumentStep, Numbers DEF DocumentFits, DocumentOK, Documents, ver
<1>1. /\ ver \in Nat /\ ver' \in Nat /\ \A j \in Jobs : jobs[j].since \in Nat
      /\ \A w \in Writers : writer[w].seen \in Nat
  BY <1>0, VersionTyped
<1>2. ver' # Absent => ver # Absent /\ ver <= ver'
  BY <1>1, VersionStep, Numbers
<1>3. ASSUME NEW j \in Jobs, jobs'[j].status = "running", ver' # Absent
      PROVE  jobs'[j].since <= ver'
  <2>1. CASE jobs[j].status = "running"
    <3>1. jobs[j].since <= ver /\ jobs'[j].since = jobs[j].since
      BY <1>2, <1>3, <2>1, JobsStep, NoRecordShape
      DEF Dated, Running, JobsFit, JobStep, Kept, Identity, Ends
    <3> QED BY <1>1, <1>2, <1>3, <3>1
  <2>2. CASE jobs[j].status # "running"
    <3>1. Insert(j) /\ jobs'[j].since = ver
      BY <1>3, <2>2, JobsStep DEF JobsFit, JobStep, Kept, Identity, Ends, Complete, ver
    <3> QED BY <1>1, <1>2, <1>3, <3>1
  <2> QED BY <2>1, <2>2
<1>4. ASSUME NEW w \in Writers, writer'[w].pc = "landing", ver' # Absent
      PROVE  writer'[w].seen <= ver'
  <2>1. WriterStep(w)
    BY WritersStep DEF WritersFit
  <2>2. CASE writer'[w].seen = ver
    BY <1>1, <1>2, <1>4, <2>2
  <2>3. CASE Landing(w) /\ writer'[w].seen = writer[w].seen
    BY <1>1, <1>2, <1>4, <2>3 DEF Dated
  <2> QED BY <1>4, <2>1, <2>2, <2>3 DEF WriterStep, Landing, ver
<1> QED BY <1>3, <1>4 DEF Dated, Running, Landing

LEMMA LandsStep ==
  ASSUME Typed, [Next]_vars, Lands
  PROVE  Lands'
<1>1. \A w \in Writers : WriterStep(w)
  BY WritersStep DEF WritersFit
<1>2. ASSUME NEW w \in Writers, writer'[w].pc = "landing"
      PROVE  \/ Landing(w)
             \/ /\ \A v \in Writers : ~Landing(v)
                /\ Resolve(w) /\ (document.marked \/ document.version = Absent)
  BY <1>1, <1>2 DEF WriterStep, Landing
<1>3. ASSUME NEW w \in Writers, NEW x \in Writers, Resolve(w), Resolve(x),
             writer'[w].pc = "landing", writer'[x].pc = "landing", ~Landing(x)
      PROVE  w = x
  BY <1>3 DEF Resolve, Becomes, Landing, Typed, WriterOK
<1>4. \A w, x \in Writers : writer'[w].pc = "landing" /\ writer'[x].pc = "landing" => w = x
  BY <1>2, <1>3 DEF Lands
<1>5. ASSUME NEW w \in Writers, writer'[w].pc = "landing"
      PROVE  document'.marked \/ ver' = Absent
  <2>1. document.marked \/ document.version = Absent
    BY <1>2, <1>5 DEF Lands, ver
  <2>2. CASE document' = document
    BY <2>1, <2>2 DEF ver
  <2>3. CASE \E x \in Writers : Land(x)
    <3>1. PICK x \in Writers : Land(x)
      BY <2>3
    <3>2. Landing(x) /\ writer' = [writer EXCEPT ![x] = NoWriter]
      BY <3>1 DEF Land, Landing, Becomes
    <3>3. writer'[x].pc = "idle" /\ (w # x => writer'[w] = writer[w])
      BY <3>2, NoWriterShape DEF Typed, WriterOK
    <3> QED BY <1>5, <3>2, <3>3 DEF Lands, Landing
  <2> QED BY <2>2, <2>3, DocumentStep DEF DocumentFits, ver
<1> QED BY <1>4, <1>5 DEF Lands, Landing

LEMMA OpenFollowsStep ==
  ASSUME Typed, [Next]_vars, OpenFollows, ShutLate
  PROVE  OpenFollows'
<1> SUFFICES ASSUME "openAtCatchUp" \notin causes', NEW p \in Pods
             PROVE  pods'[p].active \/ pods'[p].stale \/ pods'[p].generation = selection'
  BY DEF OpenFollows, NoneOpen, Closed
<1>1. NoneOpen
  BY RestStep DEF NoneOpen, RestFits
<1>2. CASE selection' = selection
  BY <1>1, <1>2, PodsStep DEF PodsFit, PodStep, OpenFollows, Closed
<1>3. CASE \E q \in Pods : CommitGeneration(q) /\ Switches(Mine(q))
  <2>1. PICK q \in Pods : CommitGeneration(q) /\ Switches(Mine(q))
    BY <1>3
  <2>2. LateRun(q) /\ pods' = pods
    BY <2>1, SwitchMeans DEF LateRun, CommitGeneration, At
  <2> QED BY <1>1, <2>2 DEF ShutLate, Closed
<1> QED BY <1>2, <1>3, SelectionStep DEF SelectionFits

LEMMA LateStep ==
  ASSUME Typed, [Next]_vars, NEW p \in Pods, LateRun(p)'
  PROVE  /\ Owns(p) /\ executor'[p].job = executor[p].job /\ Mine(p) \in Jobs
         /\ \/ LateRun(p) /\ (executor'[p] = executor[p] \/ DeleteRemoved(p))
            \/ CatchUp(p) /\ executor'[p].step = "remove"
<1>1. Owns(p)' /\ executor'[p].step \in {"remove", "commit"}
  BY DEF LateRun
<1>2. Owns(p) /\ executor'[p].job = executor[p].job /\ Mine(p) \in Jobs
  BY <1>1, OwnsStep, MineIsJob DEF Typed
<1>3. Edge(p)
  BY ExecutorStep DEF ExecutorFits
<1> QED BY <1>1, <1>2, <1>3 DEF Edge, LateRun, DeleteRemoved, At

LEMMA ShutLateStep ==
  ASSUME Typed, [Next]_vars, ShutLate
  PROVE  ShutLate'
<1> SUFFICES ASSUME "openAtCatchUp" \notin causes', NEW p \in Pods, LateRun(p)', NEW q \in Pods
             PROVE  pods'[q].active \/ pods'[q].stale
  BY DEF ShutLate, NoneOpen, Closed
<1>1. NoneOpen
  BY RestStep DEF NoneOpen, RestFits
<1>2. Owns(p) /\ Mine(p) \in Jobs
  BY LateStep
<1>3. CASE CatchUp(p)
  <2>1. causes' = causes \cup IF \A r \in Pods : Closed(r) THEN {} ELSE {"openAtCatchUp"}
    BY <1>3 DEF CatchUp
  <2>2. Closed(q) /\ pods' = pods
    BY <1>3, <2>1 DEF CatchUp
  <2> QED BY <2>2 DEF Closed
<1>4. CASE LateRun(p)
  <2>1. Closed(q)
    BY <1>1, <1>4 DEF ShutLate
  <2>2. \E j \in Jobs : Active(j)
    BY <1>2 DEF Owns, Mine
  <2> QED BY <2>1, <2>2, PodsStep DEF PodsFit, PodStep, Closed
<1> QED BY <1>3, <1>4, LateStep

(* Without a late write nobody else writes what a run prepares. *)
LEMMA OwnVector ==
  ASSUME Typed, [Next]_vars, History, Passing, "lateWrite" \notin causes',
         NEW p \in Pods, Owns(p), Working(p),
         vectors'[Mine(p)] # vectors[Mine(p)]
  PROVE  \/ Prepare(p) /\ vectors'[Mine(p)] = Absent
         \/ Embed(p) /\ vectors'[Mine(p)] = executor[p].seen
         \/ CatchUp(p) /\ ver \notin {Absent, jobs[Mine(p)].since} /\ vectors'[Mine(p)] = ver
         \/ DeleteRemoved(p) /\ ver = Absent /\ vectors'[Mine(p)] = Absent
<1>1. PICK past \in SUBSET Generations : Chain(past)
  BY DEF History
<1>2. Mine(p) \in Jobs /\ Mine(p) \in Generations /\ jobs[Mine(p)].status = "running" /\ Mine(p) \notin past
  BY <1>1, MineIsJob, OwnsMeans, Names DEF Typed, Chain, Awaits
<1>3. \A w \in Writers : Land(w) => writer[w].into # Mine(p)
  BY <1>1, <1>2 DEF Chain, Seen, Land, Landing
<1>4. \A q \in Pods : GcDrop(q) => collector[q].victim # Mine(p)
  BY <1>2, RunningIsKept DEF Running
<1>5. ASSUME NEW q \in Pods, Mine(q) = Mine(p),
             Prepare(q) \/ Embed(q) \/ CatchUp(q) \/ DeleteRemoved(q)
      PROVE  q = p
  <2>1. Owns(q)
    BY <1>5 DEF Prepare, Embed, CatchUp, DeleteRemoved, Late
  <2> QED BY <1>5, <2>1, OneOwner
<1>6. VectorStep(Mine(p))
  BY <1>2, VectorsStep DEF VectorsFit
<1> QED BY <1>3, <1>4, <1>5, <1>6 DEF VectorStep, ver

(* Nor does a run write the generation that is selected. *)
LEMMA SelectedVector ==
  ASSUME Typed, [Next]_vars, History, Passing, Quiet, "lateWrite" \notin causes',
         vectors'[selection] # vectors[selection]
  PROVE  \E w \in Writers : /\ Land(w) /\ writer[w].into = selection
                            /\ vectors'[selection] = writer[w].seen
<1>1. PICK past \in SUBSET Generations : Chain(past)
  BY DEF History
<1>2. ASSUME NEW q \in Pods, Mine(q) = selection,
             Prepare(q) \/ Embed(q) \/ CatchUp(q) \/ DeleteRemoved(q)
      PROVE  FALSE
  <2>1. Owns(q)
    BY <1>2 DEF Prepare, Embed, CatchUp, DeleteRemoved, Late
  <2>2. Working(q)
    BY <1>2, <2>1 DEF Working, Prepare, Embed, CatchUp, DeleteRemoved, At
  <2> QED BY <1>1, <1>2, <2>2 DEF Chain, Awaits, Led
<1>3. \A q \in Pods : GcDrop(q) => collector[q].victim # selection
  BY DEF Passing, Doomed, Unneeded, GcDrop
<1>4. VectorStep(selection)
  BY VectorsStep DEF VectorsFit, Typed, SelectionOK
<1> QED BY <1>2, <1>3, <1>4 DEF VectorStep

(* What a run knows of its job stays while it owns it. *)
LEMMA SinceStays ==
  ASSUME Typed, [Next]_vars, NEW p \in Pods, Owns(p)
  PROVE  jobs'[Mine(p)].since = jobs[Mine(p)].since \/ jobs'[Mine(p)].status # "running"
<1>1. Mine(p) \in Jobs /\ jobs[Mine(p)].status = "running"
  BY MineIsJob, OwnsMeans DEF Typed
<1>2. JobStep(Mine(p))
  BY <1>1, JobsStep DEF JobsFit
<1> QED BY <1>1, <1>2, NoRecordShape DEF JobStep, Kept, Identity, Ends

LEMMA EmbeddedStep ==
  ASSUME Typed, [Next]_vars, History, Passing, Dated, Embedded
  PROVE  Embedded'
<1> SUFFICES ASSUME "lateWrite" \notin causes', NEW p \in Pods, Owns(p)',
                    ver' # Absent, ver' = jobs'[executor'[p].job].since
             PROVE  /\ executor'[p].step \in {"wait", "catchup"} => vectors'[executor'[p].job] = ver'
                    /\ executor'[p].step = "embed" => executor'[p].seen = ver'
  BY DEF Embedded, NoneLate, Unchanged, Mine
<1>1. NoneLate
  BY RestStep DEF NoneLate, RestFits
<1>2. CASE executor'[p].step \in {"wait", "catchup", "embed"}
  <2> DEFINE j == Mine(p)
  <2>1. Owns(p) /\ executor'[p].job = j /\ j \in Jobs /\ jobs[j].status = "running"
    BY <1>2, OwnsStep, MineIsJob, OwnsMeans DEF Typed, Mine
  <2>2. jobs'[j].status = "running" /\ jobs'[j].since = jobs[j].since
    BY <2>1, SinceStays DEF Owns, Active, Running
  <2> HIDE DEF j
  <2>3. ver' = jobs[j].since
    BY <2>1, <2>2
  <2>4. ver' = ver /\ ver # Absent
    BY <2>1, <2>3, VersionStep, VersionTyped DEF Dated, Running
  <2>5. Unchanged(p) /\ ver = jobs[j].since
    BY <2>3, <2>4 DEF Unchanged, j
  <2>6. Edge(p)
    BY ExecutorStep DEF ExecutorFits
  <2>7. CASE executor'[p].step = "embed"
    <3>1. executor'[p].seen = ver \/ executor'[p] = executor[p]
      BY <2>6, <2>7 DEF Edge, ver
    <3>2. executor'[p] = executor[p] => executor[p].seen = ver
      BY <1>1, <2>1, <2>5, <2>7 DEF Embedded
    <3> QED BY <2>4, <2>7, <3>1, <3>2
  <2>8. CASE Embed(p)
    <3>1. executor[p].seen = ver
      BY <1>1, <2>1, <2>5, <2>8 DEF Embedded, Embed, At
    <3>2. vectors' = [vectors EXCEPT ![j] = executor[p].seen]
      BY <2>8 DEF Embed, j
    <3>3. vectors'[j] = executor[p].seen
      BY <2>1, <3>2, Names DEF Typed, VectorsOK
    <3>4. executor'[p].step # "embed"
      BY <2>8 DEF Embed, Typed, ExecutorOK, Executors
    <3> QED BY <2>1, <2>4, <3>1, <3>3, <3>4
  <2>9. CASE executor'[p].step \in {"wait", "catchup"} /\ executor[p].step \in {"wait", "catchup"}
    <3>1. vectors[j] = ver /\ Working(p)
      BY <1>1, <2>1, <2>5, <2>9 DEF Embedded, Working, j
    <3>2. vectors'[j] = vectors[j]
      <4>1. ~Prepare(p) /\ ~Embed(p) /\ ~DeleteRemoved(p)
        BY <2>9 DEF Prepare, Embed, DeleteRemoved, At
      <4>2. ver \in {Absent, jobs[j].since}
        BY <2>5
      <4> QED BY <2>1, <3>1, <4>1, <4>2, OwnVector DEF j
    <3> QED BY <2>1, <2>4, <2>9, <3>1, <3>2
  <2> QED BY <1>2, <2>6, <2>7, <2>8, <2>9 DEF Edge, AwaitWriters, At
<1> QED BY <1>2

LEMMA CaughtUpStep ==
  ASSUME Typed, [Next]_vars, History, Passing, Dated, Lands, ShutLate, Embedded, CaughtUp
  PROVE  CaughtUp'
<1> SUFFICES ASSUME "openAtCatchUp" \notin causes', "lateWrite" \notin causes',
                    NEW p \in Pods, LateRun(p)', ver' # Absent
             PROVE  \/ vectors'[executor'[p].job] = ver'
                    \/ /\ document'.marked
                       /\ \A w \in Writers : writer'[w].pc = "landing" => writer'[w].seen # ver'
  BY DEF CaughtUp, NoneOpen, NoneLate, Mine, Landing
<1> DEFINE j == Mine(p)
<1>1. NoneOpen /\ NoneLate
  BY RestStep DEF NoneOpen, NoneLate, RestFits
<1>2. /\ Owns(p) /\ executor'[p].job = j /\ j \in Jobs
      /\ \/ LateRun(p) /\ (executor'[p] = executor[p] \/ DeleteRemoved(p))
         \/ CatchUp(p) /\ executor'[p].step = "remove"
  BY LateStep DEF Mine
<1>3. j \in Generations
  BY <1>2, Names
<1> HIDE DEF j
<1>4. CASE CatchUp(p)
  <2>1. document' = document
    BY <1>4 DEF CatchUp
  <2>2. CASE ver \in {Absent, jobs[j].since}
    <3>1. vectors' = vectors
      BY <1>4, <2>2 DEF CatchUp, ver, j
    <3>2. ver # Absent /\ ver' = ver
      BY <2>1 DEF ver
    <3>3. Unchanged(p)
      BY <2>2, <3>2 DEF Unchanged, j
    <3>4. executor[p].step = "catchup"
      BY <1>4 DEF CatchUp, At
    <3>5. vectors[j] = ver
      BY <1>1, <1>2, <3>3, <3>4 DEF Embedded, j
    <3> QED BY <1>2, <3>1, <3>2, <3>5
  <2>3. CASE ver \notin {Absent, jobs[j].since}
    <3>1. vectors' = [vectors EXCEPT ![j] = ver]
      BY <1>4, <2>3 DEF CatchUp, ver, j
    <3>2. vectors'[j] = ver
      BY <1>3, <3>1 DEF Typed, VectorsOK
    <3> QED BY <1>2, <2>1, <3>2 DEF ver
  <2> QED BY <2>2, <2>3
<1>5. CASE LateRun(p)
  <2>1. Working(p) /\ \A q \in Pods : Closed(q)
    BY <1>1, <1>2, <1>5 DEF Working, LateRun, ShutLate
  <2>2. ASSUME NEW w \in Writers, writer'[w].pc = "landing"
        PROVE  Landing(w) /\ writer'[w].seen = writer[w].seen
    <3>1. WriterStep(w)
      BY WritersStep DEF WritersFit
    <3> QED BY <2>1, <2>2, <3>1 DEF WriterStep, Landing
  <2>3. CASE ver' # ver
    <3>1. ver' = ver + 1 /\ document'.marked /\ ver # Absent
      BY <2>3, VersionStep
    <3>2. \A w \in Writers : Landing(w) => writer[w].seen # ver'
      BY <3>1, VersionTyped DEF Dated
    <3> QED BY <2>2, <3>1, <3>2
  <2>4. CASE ver' = ver /\ vectors[j] = ver
    <3>1. vectors'[j] = vectors[j]
      <4>1. ~Prepare(p) /\ ~Embed(p) /\ ~CatchUp(p)
        BY <1>5 DEF LateRun, Prepare, Embed, CatchUp, At
      <4>2. ~(DeleteRemoved(p) /\ ver = Absent)
        BY <2>4
      <4> QED BY <1>2, <2>1, <4>1, <4>2, OwnVector DEF j
    <3> QED BY <1>2, <2>4, <3>1
  <2>5. CASE /\ ver' = ver /\ document.marked
             /\ \A w \in Writers : Landing(w) => writer[w].seen # ver
    <3>1. \A w \in Writers : writer'[w].pc = "landing" => writer'[w].seen # ver'
      BY <2>2, <2>5
    <3>2. document'.marked
      <4>1. \A w \in Writers : Land(w) => document.version # writer[w].seen
        BY <2>5 DEF Land, Landing, ver
      <4>2. ~ \E w \in Writers : Commit(w) /\ document'.version = document.version + 1
        BY <2>5, VersionTyped DEF ver
      <4> QED BY <2>5, <4>1, <4>2, DocumentStep DEF DocumentFits, ver
    <3> QED BY <3>1, <3>2
  <2> QED BY <1>1, <1>5, <2>3, <2>4, <2>5 DEF CaughtUp, j
<1> QED BY <1>2, <1>4, <1>5

LEMMA FollowsStep ==
  ASSUME Typed, [Next]_vars, History, Passing, Dated, Lands, OpenFollows, CaughtUp, Follows
  PROVE  Follows'
<1> SUFFICES ASSUME "openAtCatchUp" \notin causes', "lateWrite" \notin causes', Quiet', ver' # Absent
             PROVE  /\ ~document'.marked => vectors'[selection'] = ver'
                    /\ \A w \in Writers : /\ writer'[w].pc = "landing" /\ writer'[w].seen = ver'
                                          /\ writer'[w].into # selection'
                                          => vectors'[selection'] = ver'
  BY DEF Follows, NoneOpen, NoneLate, Landing
<1>1. NoneOpen /\ NoneLate /\ Quiet
  BY RestStep DEF NoneOpen, NoneLate, Quiet, RestFits
<1>2. \A w \in Writers : WriterStep(w)
  BY WritersStep DEF WritersFit
<1>3. CASE ver' # ver
  <2>1. ver' = ver + 1 /\ document'.marked /\ ver # Absent
    BY <1>3, VersionStep
  <2>2. ASSUME NEW w \in Writers, writer'[w].pc = "landing" PROVE writer'[w].seen # ver'
    <3>1. CASE Landing(w) /\ writer'[w].seen = writer[w].seen
      BY <2>1, <3>1, VersionTyped DEF Dated
    <3>2. CASE writer'[w].seen = ver
      BY <1>3, <3>2
    <3> QED BY <1>2, <2>2, <3>1, <3>2 DEF WriterStep, Landing, ver
  <2> QED BY <2>1, <2>2
<1>4. CASE selection' # selection
  <2>1. PICK p \in Pods : CommitGeneration(p) /\ Switches(Mine(p)) /\ selection' = Mine(p)
    BY <1>4, SelectionStep DEF SelectionFits
  <2>2. /\ LateRun(p) /\ Working(p)
        /\ UNCHANGED <<document, vectors, writer>>
    BY <2>1, SwitchMeans DEF LateRun, CommitGeneration, At
  <2>3. \/ vectors[Mine(p)] = ver
        \/ document.marked /\ \A w \in Writers : Landing(w) => writer[w].seen # ver
    BY <1>1, <2>2 DEF CaughtUp, ver
  <2> QED BY <2>1, <2>2, <2>3 DEF Landing, ver
<1>5. CASE ver' = ver /\ selection' = selection
  <2>1. ASSUME NEW w \in Writers, Land(w)
        PROVE  /\ Landing(w) /\ vectors'[writer[w].into] = writer[w].seen
               /\ \A x \in Writers : writer'[x].pc # "landing"
               /\ document' # document => writer[w].seen = ver
    <3>1. Landing(w) /\ Becomes(w, NoWriter)
      BY <2>1 DEF Land, Landing
    <3>2. \A x \in Writers : writer'[x].pc # "landing"
      <4>1. writer'[w].pc = "idle" /\ \A x \in Writers \ {w} : writer'[x] = writer[x]
        BY <3>1, NoWriterShape DEF Becomes, Typed, WriterOK
      <4> QED BY <3>1, <4>1 DEF Lands, Landing
    <3>3. writer[w].into \in Generations
      BY DEF Typed, WriterOK, WriterStates
    <3>4. vectors'[writer[w].into] = writer[w].seen
      BY <2>1, <3>3 DEF Land, Typed, VectorsOK
    <3> QED BY <2>1, <3>1, <3>2, <3>4 DEF Land, ver
  <2>2. CASE \E w \in Writers : Land(w) /\ writer[w].seen = ver
    <3>1. PICK w \in Writers : Land(w) /\ writer[w].seen = ver
      BY <2>2
    <3>2. CASE writer[w].into = selection
      BY <1>5, <2>1, <3>1, <3>2
    <3>3. CASE writer[w].into # selection
      <4>1. vectors[selection] = ver
        BY <1>1, <1>5, <2>1, <3>1, <3>3 DEF Follows
      <4>2. vectors'[selection] = vectors[selection]
        BY <1>1, <3>1, <4>1, SelectedVector, <2>1 DEF Lands
      <4> QED BY <1>5, <2>1, <3>1, <4>1, <4>2
    <3> QED BY <3>2, <3>3
  <2>3. CASE ~ \E w \in Writers : Land(w) /\ writer[w].seen = ver
    <3>1. document' = document
      BY <1>5, <2>1, <2>3, DocumentStep, VersionTyped, Numbers DEF DocumentFits, ver
    <3>2. CASE \E w \in Writers : Land(w)
      <4>1. PICK w \in Writers : Land(w)
        BY <3>2
      <4>2. document.marked
        BY <1>5, <2>1, <4>1 DEF Lands
      <4> QED BY <2>1, <3>1, <4>1, <4>2
    <3>3. CASE \A w \in Writers : ~Land(w)
      <4>1. vectors'[selection] = vectors[selection]
        BY <1>1, <3>3, SelectedVector
      <4>2. ASSUME NEW w \in Writers, writer'[w].pc = "landing", writer'[w].into # selection
            PROVE  Landing(w) /\ writer'[w].seen = writer[w].seen /\ writer'[w].into = writer[w].into
        <5>1. ~ \E p \in Pods : ~Closed(p) /\ pods[p].generation # selection
          BY <1>1 DEF OpenFollows
        <5> QED BY <1>2, <4>2, <5>1 DEF WriterStep, Landing
      <4> QED BY <1>1, <1>5, <3>1, <4>1, <4>2 DEF Follows
    <3> QED BY <3>2, <3>3
  <2> QED BY <2>2, <2>3
<1> QED BY <1>3, <1>4, <1>5

LEMMA CopiedStep == Typed /\ History /\ Passing /\ Copied /\ [Next]_vars => Copied'
BY DatedStep, LandsStep, OpenFollowsStep, ShutLateStep, EmbeddedStep, CaughtUpStep, FollowsStep
DEF Copied

LEMMA InitCopied == Init => Copied
<1> SUFFICES ASSUME Init PROVE Copied
  OBVIOUS
<1> USE DEF Init
<1>1. (\A p \in Pods : ~Owns(p)) /\ \A j \in Jobs : ~Running(j)
  BY NoRecordShape DEF Owns, NoExecution, Running
<1>2. \A w \in Writers : ~Landing(w)
  BY NoWriterShape DEF Landing
<1>3. Dated /\ Lands /\ OpenFollows
  BY <1>1, <1>2 DEF Dated, Lands, OpenFollows
<1>4. ShutLate /\ Embedded /\ CaughtUp
  BY <1>1 DEF ShutLate, LateRun, Embedded, CaughtUp
<1>5. Follows
  BY <1>2, Names DEF Follows, ver
<1> QED BY <1>3, <1>4, <1>5 DEF Copied

LEMMA CopiedMeans == Copied => ActiveGenerationFollows
BY DEF Copied, Follows, ActiveGenerationFollows, NoneOpen, NoneLate, Quiet, ver, Landing

(* What a search finds is what was committed: through every switch, with   *)
(* every lease that may run out and every pod that may die meanwhile, an   *)
(* entity without a marker has its vectors in the selected generation;     *)
(* unless a gate was open when a run caught up, a run wrote late, or a     *)
(* pass of the collector outlived what the switch waits for.               *)
THEOREM GenerationFollows == Spec => []ActiveGenerationFollows
<1>1. Spec => [](Typed /\ History /\ Passing /\ Copied)
  BY InitTyped, TypedStep, InitHistory, HistoryStep, InitPassing, PassingStep, InitCopied, CopiedStep,
     PTL DEF Spec
<1> QED BY <1>1, CopiedMeans, PTL

-----------------------------------------------------------------------------
(* A switch is complete *)

NoneReopened == "reopened" \notin causes
NoneStalled == "stalledSync" \notin causes
Clean == causes \subseteq {"outlived"}

(* What the gate does not stop is counted by every job that runs. *)
Gated ==
  NoneReopened => \A j \in Jobs : Running(j) =>
    /\ \A p \in Pods : p \in jobs[j].early \/ Closed(p)
    /\ \A w \in Writers : writer[w].pc = "passed" => w \in jobs[j].early
SyncsLive == NoneStalled => \A w \in Writers : writer[w].pc = "federating" => writer[w].live
(* From the catch-up on nobody is left who may still commit. *)
Drained ==
  Clean => \A p \in Pods : CatchingUp(p) =>
    jobs[Mine(p)].early = {} /\ \A w \in Writers : writer[w].pc # "federating"
Exact ==
  Clean => \A p \in Pods : Owns(p) =>
    /\ executor[p].step = "remove" => ver = Absent \/ vectors[Mine(p)] = ver
    /\ executor[p].step = "commit" => vectors[Mine(p)] = ver
Shut == Gated /\ SyncsLive /\ Drained /\ Exact

LEMMA GatedStep ==
  ASSUME Typed, [Next]_vars, Gated
  PROVE  Gated'
<1> SUFFICES ASSUME "reopened" \notin causes', NEW j \in Jobs, jobs'[j].status = "running"
             PROVE  /\ \A p \in Pods : p \in jobs'[j].early \/ pods'[p].active \/ pods'[p].stale
                    /\ \A w \in Writers : writer'[w].pc = "passed" => w \in jobs'[j].early
  BY DEF Gated, NoneReopened, Running, Closed
<1>1. NoneReopened
  BY RestStep DEF NoneReopened, RestFits
<1>2. Running(j) => /\ \A p \in Pods : p \in jobs[j].early \/ Closed(p)
                    /\ \A w \in Writers : writer[w].pc = "passed" => w \in jobs[j].early
  BY <1>1 DEF Gated
<1>3. Pods \cap Writers = {} /\ \A w \in Writers : w \notin Pods
  BY DisjointAssumption
<1>4. (\A p \in Pods : PodStep(p)) /\ (\A w \in Writers : WriterStep(w)) /\ JobStep(j)
  BY PodsStep, WritersStep, JobsStep DEF PodsFit, WritersFit, JobsFit
<1>5. CASE \E i \in Jobs : Insert(i)
  <2>1. PICK i \in Jobs : Insert(i)
    BY <1>5
  <2>2. pods' = pods /\ writer' = writer
    BY <2>1 DEF Insert
  <2>3. CASE i = j
    BY <2>1, <2>2, <2>3, InsertShape
  <2>4. CASE i # j
    <3>1. jobs'[j] = jobs[j]
      BY <2>1, <2>4, InsertShape
    <3> QED BY <1>2, <2>2, <3>1 DEF Running, Closed
  <2> QED BY <2>3, <2>4
<1>6. CASE \E p \in Pods : Poll(p) \/ PollFails(p)
  <2>1. PICK p \in Pods : Poll(p) \/ PollFails(p)
    BY <1>6
  <2>2. jobs' = Heard(p) /\ writer' = writer /\ asked' = asked
    BY <2>1 DEF Poll, PollFails
  <2>3. jobs'[j].early = jobs[j].early \ {p}
    BY <2>2, HeardFits
  <2>4. Running(j)
    BY <2>2, EarlyTyped DEF Heard, Typed, JobsOK, Records, Running
  <2>5. \A q \in Pods \ {p} : pods'[q] = pods[q]
    BY <2>1 DEF Poll, PollFails, Typed, PodsOK
  <2>6. pods'[p].active \/ pods'[p].stale
    <3>1. CASE Poll(p)
      <4>1. causes' = causes \cup IF \E i \in Jobs : Running(i) /\ ~ \E k \in Jobs : Active(k)
                                    THEN {"reopened"} ELSE {}
        BY <3>1 DEF Poll
      <4>2. \E k \in Jobs : Active(k)
        BY <2>4, <4>1
      <4>3. pods' = [pods EXCEPT ![p] = [active |-> \E i \in Jobs : Active(i), stale |-> FALSE,
                                         generation |-> selection]]
        BY <3>1 DEF Poll
      <4> QED BY <4>2, <4>3 DEF Typed, PodsOK
    <3>2. CASE PollFails(p)
      <4>1. pods' = [pods EXCEPT ![p].active = \E i \in Jobs : Active(i), ![p].stale = TRUE]
        BY <3>2 DEF PollFails
      <4> QED BY <4>1 DEF Typed, PodsOK, PodRecords
    <3> QED BY <2>1, <3>1, <3>2
  <2> QED BY <1>2, <1>3, <2>2, <2>3, <2>4, <2>5, <2>6 DEF Closed
<1>7. CASE \E p \in Pods : Crash(p)
  <2>1. PICK p \in Pods : Crash(p)
    BY <1>7
  <2> DEFINE gone == {w \in Writers : writer[w].pod = p}
  <2>2. /\ writer' = [w \in Writers |-> IF w \in gone THEN NoWriter ELSE writer[w]]
        /\ jobs' = [i \in Jobs |-> [jobs[i] EXCEPT !.early = @ \ gone]]
        /\ pods' = [pods EXCEPT ![p] = [active |-> FALSE, stale |-> TRUE, generation |-> selection]]
    BY <2>1 DEF Crash
  <2>3. jobs'[j].early = jobs[j].early \ gone
    BY <2>1, CrashFits
  <2>4. Running(j)
    BY <2>2 DEF Typed, JobsOK, Records, Running
  <2>5. pods'[p].stale /\ \A q \in Pods \ {p} : pods'[q] = pods[q]
    BY <2>2 DEF Typed, PodsOK
  <2>6. ASSUME NEW w \in Writers, writer'[w].pc = "passed" PROVE w \notin gone /\ writer[w].pc = "passed"
    BY <2>2, <2>6, NoWriterShape
  <2>7. \A q \in Pods : q \notin gone
    BY <1>3
  <2> HIDE DEF gone
  <2> QED BY <1>2, <2>3, <2>4, <2>5, <2>6, <2>7 DEF Closed
<1>8. CASE \E w \in Writers : Commit(w)
  <2>1. PICK w \in Writers : Commit(w)
    BY <1>8
  <2>2. jobs' = Ended(w) /\ pods' = pods /\ asked' = asked
    BY <2>1 DEF Commit
  <2>3. jobs'[j].early = jobs[j].early \ {w}
    BY <2>2, EndedFits
  <2>4. Running(j)
    BY <2>2 DEF Ended, Typed, JobsOK, Records, Running
  <2>5. writer'[w].pc # "passed" /\ \A v \in Writers \ {w} : writer'[v] = writer[v]
    <3>1. Becomes(w, NoWriter) \/ Becomes(w, [writer[w] EXCEPT !.pc = "sync", !.live = FALSE])
      BY <2>1 DEF Commit
    <3> QED BY <3>1, NoWriterShape DEF Becomes, Typed, WriterOK, WriterStates
  <2> QED BY <1>2, <1>3, <2>2, <2>3, <2>4, <2>5 DEF Closed
<1>9. CASE \E w \in Writers, p \in Pods : Pass(w, p)
  <2>1. PICK w \in Writers, p \in Pods : Pass(w, p)
    BY <1>9
  <2>2. /\ pods' = pods /\ ~Closed(p)
        /\ Becomes(w, [NoWriter EXCEPT !.pc = "passed", !.pod = p])
        /\ jobs' = [i \in Jobs |-> [jobs[i] EXCEPT !.early = IF p \in @ THEN @ \cup {w} ELSE @]]
    BY <2>1 DEF Pass
  <2>3. jobs'[j].early = IF p \in jobs[j].early THEN jobs[j].early \cup {w} ELSE jobs[j].early
    BY <2>1, PassFits
  <2>4. Running(j)
    BY <2>2 DEF Typed, JobsOK, Records, Running
  <2>5. \A v \in Writers \ {w} : writer'[v] = writer[v]
    BY <2>2 DEF Becomes, Typed, WriterOK
  <2> QED BY <1>2, <2>2, <2>3, <2>4, <2>5 DEF Closed
<1>10. CASE EarlyKept
  <2>1. Running(j) /\ jobs'[j].early = jobs[j].early
    BY <1>10 DEF EarlyKept, Running
  <2>2. CASE \A p \in Pods : ~Poll(p)
    <3>1. \A p \in Pods : pods'[p] = pods[p] \/ pods'[p].stale
      BY <1>4, <2>2 DEF PodStep
    <3>2. CASE \A w \in Writers : writer'[w].pc = "passed" => writer[w].pc = "passed"
      BY <1>2, <2>1, <3>1, <3>2 DEF Closed
    <3>3. CASE \A w \in Writers, p \in Pods : ~Pass(w, p)
      <4>1. \A w \in Writers : writer'[w].pc = "passed" => writer[w].pc = "passed"
        BY <1>4, <3>3 DEF WriterStep
      <4> QED BY <3>2, <4>1
    <3> QED BY <1>9, <3>3
  <2> QED BY <1>6, <2>2
<1> QED BY <1>5, <1>6, <1>7, <1>8, <1>9, <1>10, EarlyStep DEF EarlyChanges

LEMMA SyncsLiveStep ==
  ASSUME Typed, [Next]_vars, SyncsLive
  PROVE  SyncsLive'
<1> SUFFICES ASSUME "stalledSync" \notin causes', NEW w \in Writers, writer'[w].pc = "federating"
             PROVE  writer'[w].live
  BY DEF SyncsLive, NoneStalled
<1>1. NoneStalled
  BY RestStep DEF NoneStalled, RestFits
<1>2. ~SyncStalls(w)
  BY DEF SyncStalls
<1>3. WriterStep(w)
  BY WritersStep DEF WritersFit
<1> QED BY <1>1, <1>2, <1>3 DEF WriterStep, SyncsLive

LEMMA NoCauses ==
  ASSUME Typed, [Next]_vars, Clean'
  PROVE  Clean /\ NoneReopened /\ NoneStalled /\ NoneOpen /\ NoneLate
BY RestStep DEF RestFits, Clean, NoneReopened, NoneStalled, NoneOpen, NoneLate

(* From the catch-up on nobody passes a gate. *)
LEMMA DrainedStep ==
  ASSUME Typed, [Next]_vars, Gated, SyncsLive, Drained
  PROVE  Drained'
<1> SUFFICES ASSUME Clean', NEW p \in Pods, CatchingUp(p)'
             PROVE  /\ jobs'[executor'[p].job].early = {}
                    /\ \A w \in Writers : writer'[w].pc # "federating"
  BY DEF Drained, Mine
<1>1. Clean /\ NoneReopened /\ NoneStalled /\ "unheard" \notin causes'
  BY NoCauses DEF Clean
<1>a. PICK j \in Jobs : j = Mine(p)
  BY CatchStep
<1>3. Owns(p) /\ executor'[p].job = j /\ Running(j) /\ jobs'[j].status = "running"
  BY <1>a, CatchStep
<1>4. Running(j)'
  BY <1>3 DEF Running
<1>6. CASE AwaitWriters(p) /\ ~Federating /\ jobs[j].early = {}
  <2>2. \A w \in Writers : writer[w].pc # "federating"
    BY <1>1, <1>6 DEF SyncsLive, Federating
  <2>3. writer' = writer
    BY <1>6 DEF AwaitWriters
  <2>4. jobs'[j].early = {}
    BY <1>3, <1>4, <1>6, EmptyStays
  <2> QED BY <1>3, <2>2, <2>3, <2>4
<1>7. CASE CatchingUp(p)
  <2>1. jobs[j].early = {} /\ \A w \in Writers : writer[w].pc # "federating"
    BY <1>a, <1>1, <1>7 DEF Drained
  <2>2. jobs'[j].early = {}
    BY <1>3, <1>4, <2>1, EmptyStays DEF Running
  <2>3. \A q \in Pods : Closed(q)
    BY <1>1, <1>3, <2>1 DEF Gated
  <2>4. ASSUME NEW w \in Writers PROVE writer'[w].pc # "federating"
    <3>1. \A q \in Pods : ~Federate(w, q)
      BY <2>3 DEF Federate
    <3>2. WriterStep(w)
      BY WritersStep DEF WritersFit
    <3> QED BY <2>1, <3>1, <3>2 DEF WriterStep
  <2> QED BY <1>3, <2>2, <2>4
<1> QED BY <1>1, <1>a, <1>6, <1>7, CatchStep

(* Nobody changes the entity, nor but its run the generation. *)
LEMMA ExactStep ==
  ASSUME Typed, [Next]_vars, History, Passing, Embedded, Gated, Drained, Exact
  PROVE  Exact'
<1> SUFFICES ASSUME Clean', NEW p \in Pods, Owns(p)'
             PROVE  /\ executor'[p].step = "remove" => ver' = Absent \/ vectors'[executor'[p].job] = ver'
                    /\ executor'[p].step = "commit" => vectors'[executor'[p].job] = ver'
  BY DEF Exact, Mine
<1>1. Clean /\ NoneReopened /\ NoneLate /\ "lateWrite" \notin causes'
  BY NoCauses DEF Clean
<1>2. CASE executor'[p].step \in {"remove", "commit"}
  <2> DEFINE j == Mine(p)
  <2>1. LateRun(p)'
    BY <1>2 DEF LateRun
  <2>2. /\ Owns(p) /\ executor'[p].job = j /\ j \in Jobs /\ Running(j)
        /\ \/ LateRun(p) /\ (executor'[p] = executor[p] \/ DeleteRemoved(p))
           \/ CatchUp(p) /\ executor'[p].step = "remove"
    BY <2>1, LateStep, OwnsMeans DEF Mine, Running
  <2>3. CatchingUp(p) /\ Working(p) /\ j \in Generations
    BY <2>2, Names DEF CatchingUp, Working, LateRun, CatchUp, At
  <2>4. jobs[j].early = {} /\ \A w \in Writers : writer[w].pc # "federating"
    BY <1>1, <2>3 DEF Drained, j
  <2>5. \A w \in Writers : ~Commit(w)
    BY <1>1, <2>2, <2>4 DEF Gated, Commit
  <2>6. ver' = ver
    BY <2>5, DocumentStep DEF DocumentFits, ver
  <2>7. Edge(p)
    BY ExecutorStep DEF ExecutorFits
  <2> HIDE DEF j
  <2>8. CASE CatchUp(p) /\ executor'[p].step = "remove"
    <3>1. CASE ver = Absent
      BY <2>6, <2>8, <3>1
    <3>2. CASE ver # Absent /\ ver = jobs[j].since
      <4>1. vectors' = vectors
        BY <2>8, <3>2 DEF CatchUp, ver, j
      <4>2. Unchanged(p) /\ executor[p].step = "catchup"
        BY <2>8, <3>2 DEF Unchanged, CatchUp, At, j
      <4>3. vectors[j] = ver
        BY <1>1, <2>2, <4>2 DEF Embedded, j
      <4> QED BY <2>2, <2>6, <2>8, <4>1, <4>3
    <3>3. CASE ver \notin {Absent, jobs[j].since}
      <4>1. vectors' = [vectors EXCEPT ![j] = ver]
        BY <2>8, <3>3 DEF CatchUp, ver, j
      <4>2. vectors'[j] = ver
        BY <2>3, <4>1 DEF Typed, VectorsOK
      <4> QED BY <2>2, <2>6, <2>8, <4>2
    <3> QED BY <3>1, <3>2, <3>3
  <2>9. CASE DeleteRemoved(p)
    <3>1. executor[p].step = "remove" /\ executor'[p].step # "remove"
      BY <2>9 DEF DeleteRemoved, At, Goto, Typed, ExecutorOK, Executors
    <3>2. ver = Absent \/ vectors[j] = ver
      BY <1>1, <2>2, <3>1 DEF Exact, j
    <3>3. CASE ver = Absent
      <4>1. vectors' = [vectors EXCEPT ![j] = Absent]
        BY <2>9, <3>3 DEF DeleteRemoved, ver, j
      <4>2. vectors'[j] = Absent
        BY <2>3, <4>1 DEF Typed, VectorsOK
      <4> QED BY <2>2, <2>6, <3>1, <3>3, <4>2
    <3>4. CASE ver # Absent
      <4>1. vectors' = vectors
        BY <2>9, <3>4 DEF DeleteRemoved, ver
      <4> QED BY <2>2, <2>6, <3>1, <3>2, <3>4, <4>1
    <3> QED BY <3>3, <3>4
  <2>10. CASE LateRun(p) /\ executor'[p] = executor[p] /\ ~DeleteRemoved(p)
    <3>1. vectors'[j] = vectors[j]
      <4>1. ~Prepare(p) /\ ~Embed(p) /\ ~CatchUp(p)
        BY <2>10 DEF LateRun, Prepare, Embed, CatchUp, At
      <4> QED BY <1>1, <2>2, <2>3, <2>10, <4>1, OwnVector DEF j
    <3> QED BY <1>1, <2>2, <2>6, <2>10, <3>1 DEF Exact, j
  <2> QED BY <2>2, <2>8, <2>9, <2>10
<1> QED BY <1>2

LEMMA ShutStep == Typed /\ History /\ Passing /\ Copied /\ Shut /\ [Next]_vars => Shut'
BY GatedStep, SyncsLiveStep, DrainedStep, ExactStep DEF Shut, Copied

LEMMA InitShut == Init => Shut
<1> SUFFICES ASSUME Init PROVE Shut
  OBVIOUS
<1>1. (\A p \in Pods : ~Owns(p)) /\ \A j \in Jobs : ~Running(j)
  BY NoRecordShape DEF Init, Owns, NoExecution, Running
<1>2. \A w \in Writers : writer[w].pc = "idle"
  BY NoWriterShape DEF Init
<1> QED BY <1>1, <1>2 DEF Shut, Gated, SyncsLive, Drained, CatchingUp, Exact

(* A step that switches finds all gates shut, all calls ended, and the new *)
(* generation with what MongoDB holds.                                     *)
LEMMA SwitchStep ==
  ASSUME Typed, Shut, [Next]_vars, selection' # selection, Clean'
  PROVE  /\ \A w \in Writers : writer[w].pc \notin {"passed", "federating"}
         /\ vectors[selection'] = document.version
<1>1. Clean /\ NoneReopened
  BY NoCauses
<1>2. PICK p \in Pods : CommitGeneration(p) /\ Switches(Mine(p)) /\ selection' = Mine(p)
  BY SelectionStep DEF SelectionFits
<1>3. /\ Owns(p) /\ executor[p].step = "commit" /\ Mine(p) \in Jobs /\ Running(Mine(p))
  BY <1>2, SwitchMeans DEF CommitGeneration, At, Running
<1>4. jobs[Mine(p)].early = {} /\ \A w \in Writers : writer[w].pc # "federating"
  BY <1>1, <1>3 DEF Shut, Drained, CatchingUp
<1>5. \A w \in Writers : writer[w].pc # "passed"
  BY <1>1, <1>3, <1>4 DEF Shut, Gated
<1>6. vectors[Mine(p)] = document.version
  BY <1>1, <1>3 DEF Shut, Exact, ver
<1> QED BY <1>2, <1>4, <1>5, <1>6

(* At a switch no call that a gate let pass, and no federation sync, is    *)
(* still to commit, and the new generation holds what MongoDB holds;       *)
(* unless the gates opened again between two attempts of the job, a sync   *)
(* or a run went on without its lease, or a pod collected all the time     *)
(* that the job waited for it to poll.                                     *)
THEOREM SwitchComplete == Spec => SwitchIsComplete
<1> DEFINE Whole ==
  selection' # selection /\ causes' \subseteq {"outlived"} =>
    /\ \A w \in Writers : writer[w].pc \notin {"passed", "federating"}
    /\ vectors[selection'] = document.version
<1>1. Typed /\ Shut /\ [Next]_vars => [Whole]_vars
  BY SwitchStep DEF Clean
<1>2. Spec => [](Typed /\ History /\ Passing /\ Copied /\ Shut)
  BY InitTyped, TypedStep, InitHistory, HistoryStep, InitPassing, PassingStep, InitCopied, CopiedStep, InitShut, ShutStep,
     PTL DEF Spec
<1> QED BY <1>1, <1>2, PTL DEF Spec, SwitchIsComplete
==============================================================================
