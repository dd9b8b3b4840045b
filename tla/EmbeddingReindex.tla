--------------------------- MODULE EmbeddingReindex ---------------------------
(***************************************************************************)
(* Changing the embedding model: jobs that embed every entity into a       *)
(* generation of their own and then switch the selection to it, the gate   *)
(* that holds writes back meanwhile, the watchers that move each pod to    *)
(* the selected generation, and the collection of old generations.         *)
(*                                                                         *)
(* One entity stands for all of them.  Its writers pass the gate of their  *)
(* pod, commit to MongoDB with a marker, and then write the vectors of the *)
(* pod's generation; what VectorSync checks about this is taken as given.  *)
(* The lease of a job is what LeasedJob describes, without its calls.      *)
(***************************************************************************)
EXTENDS Integers, FiniteSets

CONSTANTS
  Pods,
  Collectors,   \* bound: the pods whose collection comes due
  Jobs,         \* reindex jobs; each names its generation
  Writers,      \* slots for calls, federation syncs and reconcilers
  Faults,       \* what may go wrong, of AllFaults
  MaxAttempts,  \* _MAX_ATTEMPTS
  MaxVersion,   \* bound: versions of the entity
  MaxFaults     \* bound: faults

AllFaults ==
  {"crash",    \* a pod is killed and started again
   "lapse",    \* a lease runs out
   "stall",    \* an executor goes on without its lease
   "error",    \* MongoDB, Weaviate or the provider fails
   "build"}    \* a pod cannot build the adapter of a generation

Base == "base"                                \* the generation without a name
Generations == Jobs \cup {Base}
NoJob == "none"
Nobody == "nobody"
Missing == -1                                 \* no such collection
Absent == 0                                   \* no such entity
Versions == 1..MaxVersion

ASSUME NamesAssumption == {Base, NoJob, Nobody} \cap (Jobs \cup Pods) = {}
ASSUME FinitenessAssumption == IsFiniteSet(Pods) /\ IsFiniteSet(Jobs)
ASSUME DisjointAssumption == Pods \cap Writers = {} /\ Collectors \subseteq Pods
ASSUME BoundsAssumption == MaxAttempts \in Nat /\ MaxVersion \in Nat \ {0} /\ MaxFaults \in Nat
ASSUME FaultsAssumption == Faults \subseteq AllFaults

VARIABLES
  document,   \* the entity in MongoDB
  selection,  \* ModelGatewaySelection.embeddingCollectionGeneration
  vectors,    \* generation -> what it holds of the entity
  jobs,       \* the EmbeddingReindexJobs
  asked,      \* triggers that found no active job
  pods,       \* each pod's watcher and adapter
  executor,   \* each pod's runner
  writer,     \* each writer
  collector,  \* each pod's pass over old generations
  mishaps,    \* faults so far
  causes      \* history: what came too early, or too late

vars == <<document, selection, vectors, jobs, asked, pods, executor, writer, collector, mishaps, causes>>

Documents == [version : Versions \cup {Absent}, marked : BOOLEAN]
Records ==
  [status : {"none", "running", "completed", "failed"},
   previous : Generations \cup {NoJob},
   holder : Pods \cup {Nobody}, live : BOOLEAN, attempts : 0..MaxAttempts + 1,
   early : SUBSET (Pods \cup Writers),  \* what the gate did not stop when the job started
   since : Versions \cup {Absent},      \* the version when the job started
   recent : BOOLEAN]                    \* finished within the retention
NoRecord == [status |-> "none", previous |-> NoJob, holder |-> Nobody, live |-> FALSE,
             attempts |-> 0, early |-> {}, since |-> Absent, recent |-> FALSE]
Fenced == {"load", "sweep", "wait", "catchup", "remove", "commit", "grace"}
Steps == {"idle", "drop", "embed"} \cup Fenced
Executors == [job : Jobs \cup {NoJob}, step : Steps, seen : Versions \cup {Absent}]
NoExecution == [job |-> NoJob, step |-> "idle", seen |-> Absent]
WriterStates ==
  [pc : {"idle", "passed", "federating", "sync", "landing"}, pod : Pods \cup {Nobody},
   live : BOOLEAN, seen : Versions \cup {Absent}, into : Generations]
NoWriter == [pc |-> "idle", pod |-> Nobody, live |-> FALSE, seen |-> Absent, into |-> Base]
Passes ==
  [step : {"idle", "due", "protect", "list", "check", "drop"},
   active : Generations,                      \* the selection that the pass has read
   spared : SUBSET (Generations \cup {NoJob}),
   old : SUBSET Jobs,                         \* completed before the retention_cutoff
   left : SUBSET Jobs,                        \* names still to be checked
   victim : Jobs \cup {NoJob}]
NoPass == [step |-> "idle", active |-> Base, spared |-> {}, old |-> {}, left |-> {}, victim |-> NoJob]
NextPass(p) == [NoPass EXCEPT !.step = IF p \in Collectors THEN "due" ELSE "idle"]
AllCauses == {"reopened", "stalledSync", "openAtCatchUp", "lateWrite", "unheard", "outlived"}

TypeOK ==
  /\ document \in Documents
  /\ selection \in Generations
  /\ vectors \in [Generations -> Versions \cup {Absent, Missing}]
  /\ jobs \in [Jobs -> Records]
  /\ \A j \in Jobs : jobs[j].live \/ jobs[j].holder # Nobody => jobs[j].status = "running"
  /\ asked \subseteq Jobs
  /\ pods \in [Pods -> [active : BOOLEAN, stale : BOOLEAN, generation : Generations]]
  /\ executor \in [Pods -> Executors]
  /\ writer \in [Writers -> WriterStates]
  /\ collector \in [Pods -> Passes]
  /\ mishaps \in 0..MaxFaults
  /\ causes \subseteq AllCauses

Init ==
  /\ document = [version |-> 1, marked |-> FALSE]
  /\ selection = Base
  /\ vectors = [g \in Generations |-> IF g = Base THEN 1 ELSE Missing]
  /\ jobs = [j \in Jobs |-> NoRecord]
  /\ asked = {}
  /\ pods = [p \in Pods |-> [active |-> FALSE, stale |-> FALSE, generation |-> Base]]
  /\ executor = [p \in Pods |-> NoExecution]
  /\ writer = [w \in Writers |-> NoWriter]
  /\ collector = [p \in Pods |-> NextPass(p)]
  /\ mishaps = 0
  /\ causes = {}

Fault(name) == name \in Faults /\ mishaps < MaxFaults /\ mishaps' = mishaps + 1

Running(j) == jobs[j].status = "running"
Active(j) == Running(j) /\ jobs[j].live             \* get_active_embedding_reindex_job
Collecting(p) == collector[p].step \notin {"idle", "due"}
Closed(p) == pods[p].active \/ pods[p].stale        \* EmbeddingMaintenanceWatcher.is_active
Federating == \E w \in Writers : writer[w].pc = "federating" /\ writer[w].live
                                                    \* has_active_jobs

-----------------------------------------------------------------------------
(* trigger_reindex: two may find no job, test their model, and insert one. *)

Ask(j) ==
  /\ jobs[j] = NoRecord /\ j \notin asked
  /\ ~ \E k \in Jobs : Active(k)
  /\ ~Federating
  /\ asked' = asked \cup {j}
  /\ UNCHANGED <<document, selection, vectors, jobs, pods, executor, writer, collector, mishaps, causes>>

Insert(j) ==
  /\ j \in asked
  /\ asked' = asked \ {j}
  /\ jobs' = [jobs EXCEPT ![j] =
       [NoRecord EXCEPT !.status = "running", !.previous = selection, !.live = TRUE,
                        !.since = document.version,
                        !.early = Pods \cup {w \in Writers : writer[w].pc = "passed"}]]
  /\ UNCHANGED <<document, selection, vectors, pods, executor, writer, collector, mishaps, causes>>

-----------------------------------------------------------------------------
(* EmbeddingMaintenanceWatcher._poll.  From its first poll on a pod lets   *)
(* no call pass that a job would have to wait for.  The watcher collects   *)
(* old generations between two polls, and does not poll meanwhile.         *)

Collects(p, pass) == collector' = [collector EXCEPT ![p] = pass]
Heard(p) == [j \in Jobs |-> [jobs[j] EXCEPT !.early = @ \ {p}]]
(* Mutant: a gate once closed stays closed. *)
PollSticky(p) ==
  /\ ~Collecting(p)
  /\ pods' = [pods EXCEPT ![p] = [active |-> @.active \/ \E j \in Jobs : Active(j),
                                  stale |-> FALSE, generation |-> selection]]
  /\ jobs' = Heard(p)
  /\ Collects(p, NextPass(p))
  /\ UNCHANGED <<document, selection, vectors, asked, executor, writer, mishaps, causes>>
Poll(p) ==
  /\ ~Collecting(p)
  /\ pods' = [pods EXCEPT ![p] = [active |-> \E j \in Jobs : Active(j), stale |-> FALSE,
                                  generation |-> selection]]
  /\ jobs' = Heard(p)
  /\ causes' = causes \cup IF \E j \in Jobs : Running(j) /\ ~ \E k \in Jobs : Active(k)
                             THEN {"reopened"} ELSE {}
  /\ Collects(p, NextPass(p))
  /\ UNCHANGED <<document, selection, vectors, asked, executor, writer, mishaps>>

PollFails(p) ==
  /\ Fault("build")
  /\ ~Collecting(p)
  /\ pods[p].generation # selection
  /\ pods' = [pods EXCEPT ![p].active = \E j \in Jobs : Active(j), ![p].stale = TRUE]
  /\ jobs' = Heard(p)
  /\ UNCHANGED <<document, selection, vectors, asked, executor, writer, collector, causes>>

-----------------------------------------------------------------------------
(* Writers *)

Becomes(w, state) == writer' = [writer EXCEPT ![w] = state]

(* raise_if_reindex_active, before a call's first read *)
Pass(w, p) ==
  /\ writer[w].pc = "idle" /\ ~Closed(p)
  /\ document.version \in 1..MaxVersion - 1
  /\ Becomes(w, [NoWriter EXCEPT !.pc = "passed", !.pod = p])
  /\ jobs' = [j \in Jobs |-> [jobs[j] EXCEPT !.early = IF p \in @ THEN @ \cup {w} ELSE @]]
  /\ UNCHANGED <<document, selection, vectors, asked, pods, executor, collector, mishaps, causes>>

(* run_sync: the sync's job is there, leased, before the gate is asked. *)
Federate(w, p) ==
  /\ writer[w].pc = "idle" /\ ~Closed(p)
  /\ document.version \in 1..MaxVersion - 1
  /\ Becomes(w, [NoWriter EXCEPT !.pc = "federating", !.pod = p, !.live = TRUE])
  /\ UNCHANGED <<document, selection, vectors, jobs, asked, pods, executor, collector, mishaps, causes>>

(* The entity is changed, with a marker, or deleted; or nothing is done. *)
Ended(w) == [j \in Jobs |-> [jobs[j] EXCEPT !.early = @ \ {w}]]
Commit(w) ==
  /\ writer[w].pc \in {"passed", "federating"}
  /\ jobs' = Ended(w)
  /\ \/ /\ document.version \in 1..MaxVersion - 1
        /\ document' \in {[version |-> document.version + 1, marked |-> TRUE],
                          [version |-> Absent, marked |-> FALSE]}
        /\ Becomes(w, [writer[w] EXCEPT !.pc = "sync", !.live = FALSE])
     \/ UNCHANGED document /\ Becomes(w, NoWriter)
  /\ UNCHANGED <<selection, vectors, asked, pods, executor, collector, mishaps, causes>>

(* VectorSyncReconciler *)
Reconcile(w, p) ==
  /\ writer[w].pc = "idle"
  /\ document.marked
  /\ Becomes(w, [NoWriter EXCEPT !.pc = "sync", !.pod = p])
  /\ UNCHANGED <<document, selection, vectors, jobs, asked, pods, executor, collector, mishaps, causes>>

(* DatabaseClient.write_adapter: the gate is asked again.  The entity's    *)
(* lease lets one task in at a time; what is refused stays marked.         *)
(* Mutant: writes of vectors are not gated. *)
NoWriteGate(p) == p \in Pods
WriteGate(p) == ~Closed(p)
Resolve(w) ==
  /\ writer[w].pc = "sync"
  /\ Becomes(w, IF /\ WriteGate(writer[w].pod)
                   /\ ~ \E v \in Writers : writer[v].pc = "landing"
                   /\ document.marked \/ document.version = Absent
                  THEN [writer[w] EXCEPT !.pc = "landing", !.seen = document.version,
                                         !.into = pods[writer[w].pod].generation]
                  ELSE NoWriter)
  /\ UNCHANGED <<document, selection, vectors, jobs, asked, pods, executor, collector, mishaps, causes>>

(* ensure_collection makes a collection that is missing. *)
Land(w) ==
  /\ writer[w].pc = "landing"
  /\ vectors' = [vectors EXCEPT ![writer[w].into] = writer[w].seen]
  /\ document' = IF document.version = writer[w].seen
                   THEN [document EXCEPT !.marked = FALSE] ELSE document
  /\ Becomes(w, NoWriter)
  /\ UNCHANGED <<selection, jobs, asked, pods, executor, collector, mishaps, causes>>

-----------------------------------------------------------------------------
(* EmbeddingReindexExecutionService, under EmbeddingReindexJobRunner *)

Owns(p) == LET j == executor[p].job
           IN  j # NoJob /\ Active(j) /\ jobs[j].holder = p
At(p, step) == executor[p].step = step
Goto(p, step) == executor' = [executor EXCEPT ![p].step = step]
Stops(p) == executor' = [executor EXCEPT ![p] = NoExecution]
Mine(p) == executor[p].job

(* Mutant: the job of a dead pod is nobody's. *)
ClaimableOnce(j) == Running(j) /\ jobs[j].holder = Nobody
Claimable(j) == Running(j) /\ (jobs[j].holder = Nobody \/ ~jobs[j].live)
Claim(p, j) ==
  /\ At(p, "idle") /\ Claimable(j)
  /\ jobs' = [jobs EXCEPT ![j].holder = p, ![j].live = TRUE,
                          ![j].attempts = IF @ > MaxAttempts THEN @ ELSE @ + 1]
  /\ executor' = [executor EXCEPT ![p] = [NoExecution EXCEPT !.job = j, !.step = "load"]]
  /\ UNCHANGED <<document, selection, vectors, asked, pods, writer, collector, mishaps, causes>>

(* Mutant: the terminal write leaves the lease. *)
FinishedHeld(j, status) ==
  [jobs EXCEPT ![j].status = status, ![j].recent = status = "completed"]
Finished(j, status) ==
  [jobs EXCEPT ![j] = [NoRecord EXCEPT !.status = status, !.previous = jobs[j].previous,
                                       !.recent = status = "completed"]]
Fail(p) ==
  /\ jobs' = Finished(Mine(p), "failed")
  /\ Stops(p)

(* run_claimed_job, finish_exhausted_job *)
Load(p) ==
  /\ At(p, "load") /\ Owns(p)
  /\ LET j == Mine(p) IN
       \/ selection = j /\ Goto(p, "grace") /\ UNCHANGED jobs
       \/ selection # j /\ (jobs[j].attempts > MaxAttempts \/ selection # jobs[j].previous) /\ Fail(p)
       \/ /\ selection = jobs[j].previous /\ jobs[j].attempts <= MaxAttempts
          /\ Goto(p, "drop") /\ UNCHANGED jobs
  /\ UNCHANGED <<document, selection, vectors, asked, pods, writer, collector, mishaps, causes>>

(* Dropping a collection and writing one ask for no lease.  They go on     *)
(* without it in a pod that was paused, or in a thread.                    *)
MayRun(p) == Owns(p) \/ "stall" \in Faults
Late(p) == IF Owns(p) THEN {} ELSE {"lateWrite"}

Prepare(p) ==
  /\ At(p, "drop") /\ MayRun(p)
  /\ vectors' = [vectors EXCEPT ![Mine(p)] = Absent]
  /\ causes' = causes \cup Late(p)
  /\ Goto(p, "sweep")
  /\ UNCHANGED <<document, selection, jobs, asked, pods, writer, collector, mishaps>>

Sweep(p) ==
  /\ At(p, "sweep") /\ Owns(p)
  /\ executor' = [executor EXCEPT ![p].step = "embed", ![p].seen = document.version]
  /\ UNCHANGED <<document, selection, vectors, jobs, asked, pods, writer, collector, mishaps, causes>>

Embed(p) ==
  /\ At(p, "embed") /\ MayRun(p)
  /\ vectors' = [vectors EXCEPT ![Mine(p)] = executor[p].seen]
  /\ causes' = causes \cup Late(p)
  /\ executor' = [executor EXCEPT ![p].step = "wait", ![p].seen = Absent]
  /\ UNCHANGED <<document, selection, jobs, asked, pods, writer, collector, mishaps>>

(* _await_pre_gate_writers: since the job was inserted, the time has       *)
(* passed in which a pod polls, unless it collects, and every call ends    *)
(* that was let pass until then; and federation syncs end.                 *)
(* Mutant: federation syncs only. *)
NoDelay(j) == j \in Jobs
DelayOver(j) == \A q \in jobs[j].early : q \in Pods /\ Collecting(q)
Unheard(j) == IF \E q \in jobs[j].early : q \in Pods /\ Collecting(q) THEN {"unheard"} ELSE {}
AwaitWriters(p) ==
  /\ At(p, "wait") /\ Owns(p)
  /\ \/ /\ DelayOver(Mine(p)) /\ ~Federating
        /\ Goto(p, "catchup")
        /\ causes' = causes \cup Unheard(Mine(p))
        /\ UNCHANGED jobs
     \/ Federating /\ Fail(p) /\ UNCHANGED causes           \* _FEDERATION_DRAIN_TIMEOUT
  /\ UNCHANGED <<document, selection, vectors, asked, pods, writer, collector, mishaps>>

CatchUp(p) ==
  /\ At(p, "catchup") /\ Owns(p)
  /\ vectors' = IF document.version \in {Absent, jobs[Mine(p)].since} THEN vectors
                  ELSE [vectors EXCEPT ![Mine(p)] = document.version]
  /\ causes' = causes \cup IF \A q \in Pods : Closed(q) THEN {} ELSE {"openAtCatchUp"}
  /\ Goto(p, "remove")
  /\ UNCHANGED <<document, selection, jobs, asked, pods, writer, collector, mishaps>>

DeleteRemoved(p) ==
  /\ At(p, "remove") /\ Owns(p)
  /\ vectors' = IF document.version = Absent THEN [vectors EXCEPT ![Mine(p)] = Absent] ELSE vectors
  /\ Goto(p, "commit")
  /\ UNCHANGED <<document, selection, jobs, asked, pods, writer, collector, mishaps, causes>>

(* _commit_generation: the fence and the compare-and-set in a transaction *)
(* Mutant: the selection is set whatever it is. *)
SwitchesAlways(j) == selection # j
Switches(j) == selection = jobs[j].previous
CommitGeneration(p) ==
  /\ At(p, "commit") /\ Owns(p)
  /\ IF Switches(Mine(p))
       THEN /\ selection' = Mine(p)
            /\ Goto(p, "grace")
            /\ UNCHANGED jobs
       ELSE Fail(p) /\ UNCHANGED selection
  /\ UNCHANGED <<document, vectors, asked, pods, writer, collector, mishaps, causes>>

(* _grace_then_complete: in the grace period a pod polls, unless it        *)
(* collects; its pass may have read the selection before the switch.       *)
GraceOver == \A p \in Pods : pods[p].generation = selection \/ pods[p].stale \/ Collecting(p)
Outlived ==
  IF \E p \in Pods : Collecting(p) /\ collector[p].active # selection THEN {"outlived"} ELSE {}
Complete(p) ==
  /\ At(p, "grace") /\ Owns(p)
  /\ GraceOver
  /\ jobs' = Finished(Mine(p), "completed")
  /\ causes' = causes \cup Outlived
  /\ Stops(p)
  /\ UNCHANGED <<document, selection, vectors, asked, pods, writer, collector, mishaps>>

(* The heartbeat finds the lease gone, or a step its fence. *)
LeaseLost(p) ==
  /\ executor[p] # NoExecution /\ ~Owns(p)
  /\ Stops(p)
  /\ UNCHANGED <<document, selection, vectors, jobs, asked, pods, writer, collector, mishaps, causes>>

(* Documents that were not embedded fail the job; any other error leaves   *)
(* it to the next attempt, when its lease runs out.                        *)
SweepFails(p) ==
  /\ Fault("error")
  /\ Owns(p)
  /\ \/ executor[p].step \in {"embed", "catchup"} /\ Fail(p)
     \/ Stops(p) /\ UNCHANGED jobs
  /\ UNCHANGED <<document, selection, vectors, asked, pods, writer, collector, causes>>

Execute(p) ==
  \/ Load(p) \/ Prepare(p) \/ Sweep(p) \/ Embed(p) \/ AwaitWriters(p)
  \/ CatchUp(p) \/ DeleteRemoved(p) \/ CommitGeneration(p) \/ Complete(p) \/ LeaseLost(p)

-----------------------------------------------------------------------------
(* gc_stale_embedding_generations, by a pod that follows the selection: it *)
(* reads the selection, the running jobs and the names of the collections  *)
(* once each, and then looks at one name at a time.                        *)

GcUnchanged ==
  UNCHANGED <<document, selection, jobs, asked, pods, executor, writer, causes>>

GcRead(p) ==
  /\ collector[p].step = "due"
  /\ pods[p].generation = selection
  /\ Collects(p, [NoPass EXCEPT !.step = "protect", !.active = selection])
  /\ GcUnchanged /\ UNCHANGED <<vectors, mishaps>>

(* Mutant: a job whose lease ran out spares nothing. *)
SparedByLive == {jobs[j].previous : j \in {k \in Jobs : Active(k)}}
Spared == {jobs[j].previous : j \in {k \in Jobs : Running(k)}}
GcProtect(p) ==
  /\ collector[p].step = "protect"
  /\ Collects(p, [collector[p] EXCEPT !.step = "list", !.spared = Spared])
  /\ GcUnchanged /\ UNCHANGED <<vectors, mishaps>>

(* The pass with these names before it; or it is over. *)
Continued(pass, names) ==
  IF names = {} THEN NoPass
    ELSE [pass EXCEPT !.step = "check", !.spared = {}, !.left = names, !.victim = NoJob]
GcList(p) ==
  /\ collector[p].step = "list"
  /\ LET pass == collector[p]
         dated == [pass EXCEPT !.old = {j \in Jobs : jobs[j].status = "completed" /\ ~jobs[j].recent}]
     IN  Collects(p, Continued(dated, {g \in Jobs : vectors[g] # Missing} \ ({pass.active} \cup pass.spared)))
  /\ GcUnchanged /\ UNCHANGED <<vectors, mishaps>>

Over(g) == jobs[g].status \in {"completed", "failed"}
Supersedes(j, g) == jobs[j].status = "completed" /\ jobs[j].previous = g
GcCheck(p, g) ==
  /\ collector[p].step = "check" /\ g \in collector[p].left
  /\ LET pass == collector[p]
         rest == pass.left \ {g}
     IN  Collects(p, IF Over(g) /\ \A j \in Jobs : Supersedes(j, g) => j \in pass.old
                       THEN [pass EXCEPT !.step = "drop", !.left = rest, !.victim = g]
                       ELSE Continued(pass, rest))
  /\ GcUnchanged /\ UNCHANGED <<vectors, mishaps>>

GcDrop(p) ==
  /\ collector[p].step = "drop"
  /\ \/ vectors' = [vectors EXCEPT ![collector[p].victim] = Missing] /\ UNCHANGED mishaps
     \/ Fault("error") /\ UNCHANGED vectors
  /\ Collects(p, Continued(collector[p], collector[p].left))
  /\ GcUnchanged

GcFails(p) ==
  /\ Fault("error")
  /\ Collecting(p)
  /\ Collects(p, NoPass)
  /\ GcUnchanged /\ UNCHANGED vectors

Gc(p) == GcProtect(p) \/ GcList(p) \/ (\E g \in Jobs : GcCheck(p, g)) \/ GcDrop(p)

(* _PREVIOUS_GENERATION_RETENTION *)
RetentionEnds(j) ==
  /\ jobs[j].recent
  /\ jobs' = [jobs EXCEPT ![j].recent = FALSE]
  /\ UNCHANGED <<document, selection, vectors, asked, pods, executor, writer, collector, mishaps, causes>>

-----------------------------------------------------------------------------
(* Faults *)

(* Nobody renews a lease whose executor is gone; another one may lapse. *)
Expire(j) ==
  /\ Active(j)
  /\ \/ /\ \A p \in Pods : executor[p].job # j \/ jobs[j].holder # p
        /\ UNCHANGED mishaps
     \/ Fault("lapse")
  /\ jobs' = [jobs EXCEPT ![j].live = FALSE]
  /\ UNCHANGED <<document, selection, vectors, asked, pods, executor, writer, collector, causes>>

(* A federation sync that goes on without its lease is not waited for. *)
SyncStalls(w) ==
  /\ Fault("stall")
  /\ writer[w].live
  /\ Becomes(w, [writer[w] EXCEPT !.live = FALSE])
  /\ causes' = causes \cup {"stalledSync"}
  /\ UNCHANGED <<document, selection, vectors, jobs, asked, pods, executor, collector>>

(* The pod starts again on the selected generation, its gate closed. *)
Crash(p) ==
  /\ Fault("crash")
  /\ pods' = [pods EXCEPT ![p] = [active |-> FALSE, stale |-> TRUE, generation |-> selection]]
  /\ Stops(p)
  /\ Collects(p, NextPass(p))
  /\ LET gone == {w \in Writers : writer[w].pod = p}
     IN  /\ writer' = [w \in Writers |-> IF w \in gone THEN NoWriter ELSE writer[w]]
         /\ jobs' = [j \in Jobs |-> [jobs[j] EXCEPT !.early = @ \ gone]]
  /\ UNCHANGED <<document, selection, vectors, asked, causes>>

-----------------------------------------------------------------------------
Next ==
  \/ \E j \in Jobs : \/ Ask(j) \/ Insert(j) \/ Expire(j) \/ RetentionEnds(j)
                     \/ \E p \in Pods : Claim(p, j)
  \/ \E p \in Pods : \/ Poll(p) \/ PollFails(p) \/ Execute(p) \/ SweepFails(p) \/ Crash(p)
                     \/ GcRead(p) \/ Gc(p) \/ GcFails(p)
  \/ \E w \in Writers : \/ Commit(w) \/ Resolve(w) \/ Land(w) \/ SyncStalls(w)
                        \/ \E p \in Pods : Pass(w, p) \/ Federate(w, p) \/ Reconcile(w, p)

Spec == Init /\ [][Next]_vars

(* Watchers go on, calls and syncs end, leases that nobody renews run out. *)
Fairness ==
  /\ \A p \in Pods : WF_vars(Poll(p) \/ Gc(p)) /\ WF_vars(Execute(p))
  /\ \A j \in Jobs : WF_vars(Expire(j) /\ UNCHANGED mishaps) /\ WF_vars(\E p \in Pods : Claim(p, j))
  /\ \A w \in Writers : WF_vars(Commit(w) \/ Resolve(w) \/ Land(w))
  /\ WF_vars(\E w \in Writers, p \in Pods : Reconcile(w, p))
FairSpec == Spec /\ Fairness

-----------------------------------------------------------------------------
(* Properties *)

(* What a search finds is what was committed, before, during and after a   *)
(* switch: an entity without a marker has its vectors in the selected      *)
(* generation.  Three things break this: a gate that is open when the job  *)
(* catches up, a write of an executor without its lease, and a pass of the *)
(* collector that outlives a switch and what the switch waits for.         *)
ActiveGenerationFollows ==
  /\ document.version # Absent /\ ~document.marked
  /\ \A w \in Writers : writer[w].pc # "landing"
  /\ causes \cap {"openAtCatchUp", "lateWrite", "unheard", "outlived"} = {}
  => vectors[selection] = document.version

(* At the switch no call that the gate let pass is still to commit, and    *)
(* the new generation holds what MongoDB holds, deletions included; unless *)
(* the gate opened again between two attempts of the job, a federation     *)
(* sync or an executor went on without its lease, or a pod collected old   *)
(* generations all the time that the job waited for it to poll.            *)
SwitchIsComplete ==
  [][selection' # selection /\ causes' \subseteq {"outlived"} =>
       /\ \A w \in Writers : writer[w].pc \notin {"passed", "federating"}
       /\ vectors[selection'] = document.version]_vars

(* Of jobs that started from one generation at most one completes, and the *)
(* job whose generation is selected never counts as failed.                *)
OneWinner ==
  /\ \A i, j \in Jobs : i # j /\ jobs[i].status = "completed" /\ jobs[j].status = "completed"
                        => jobs[i].previous # jobs[j].previous
  /\ selection \in Jobs => jobs[selection].status \in {"running", "completed"}

(* What gc_stale_embedding_generations does not see: the job that switched *)
(* away from g failed, because another one switched on before it was over. *)
Unprotected(g) ==
  \E j, k \in Jobs : jobs[j].previous = g /\ jobs[j].status = "failed" /\ jobs[k].previous = j

(* A job switched away from g longer than the retention ago. *)
Overdue(g) == \E j \in Jobs : Supersedes(j, g) /\ ~jobs[j].recent

(* No pod searches a generation that was dropped, the selected one or one  *)
(* it lags at, although the collector goes by what it read before it drops *)
(* anything; unless the pod lags for longer than the retention, two        *)
(* switches overtook it and the first one counts as failed, or a pass      *)
(* outlived all that a switch waits for: the delay or the grace period.    *)
ServedGenerationExists ==
  causes \cap {"unheard", "outlived"} = {} =>
    \A p \in Pods : LET g == pods[p].generation
                    IN  vectors[g] # Missing \/ Unprotected(g) \/ Overdue(g)

(* Writes are not held back for good: reindexes end, the one whose pod died *)
(* or whose attempts are used up as well, and every gate opens again.      *)
HeldBack == (\E j \in Jobs : Running(j)) \/ (\E p \in Pods : Closed(p))
WritesResume == HeldBack ~> ~HeldBack

(* What the closed gate kept from the vectors is written when it opens. *)
ChangesAreSynced == document.marked ~> ~document.marked
=============================================================================
