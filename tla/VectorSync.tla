----------------------------- MODULE VectorSync -----------------------------
(***************************************************************************)
(* One server or agent, and its vectors: the calls that write it, the      *)
(* tasks that bring its vectors up to date (at once, or as reconciler or   *)
(* federation), the deletion of its vectors and the orphan sweep.          *)
(*                                                                         *)
(* A write that matters to the vectors sets a marker, vectorSyncPendingAt, *)
(* in the same commit; a task clears it, if it is still the same, when the *)
(* vectors are written.  Tasks exclude each other by a lease per entity;   *)
(* but a write of vectors runs in a thread that nobody can cancel.         *)
(***************************************************************************)
EXTENDS Integers, FiniteSets

CONSTANTS
  Tasks,      \* slots for sync_pending_vectors, on all pods
  Callers,    \* API calls that read the entity and save it later
  Contents,   \* what is embedded (vectorContentHash tells them apart)
  Markers,    \* timestamps
  Faults,     \* what may go wrong, of AllFaults
  MaxWrites,  \* bound: calls
  MaxFaults   \* bound: faults

AllFaults ==
  {"crash",     \* the pod of a task is killed
   "shutdown",  \* the task tracker cancels a task
   "silence",   \* a task cannot renew its lease, and gives up
   "lapse",     \* a lease runs out under a task that goes on
   "error"}     \* Weaviate or the embedding provider fails

Unset == 0
Enabled == {"enabled", "disabled"}            \* mutable_metadata

ASSUME TasksAssumption == "nobody" \notin Tasks /\ IsFiniteSet(Tasks)
ASSUME ContentsAssumption == "mixed" \notin Contents /\ "none" \notin Contents
ASSUME MarkersAssumption == Unset \notin Markers
ASSUME BoundsAssumption == MaxWrites \in Nat /\ MaxFaults \in Nat
ASSUME FaultsAssumption == Faults \subseteq AllFaults

VARIABLES
  doc,        \* the document in MongoDB
  vectors,    \* its objects in Weaviate
  lease,      \* the entity's LeaderLease
  pc,         \* where each task is
  plan,       \* what each task was asked for (VectorSyncPlan)
  seen,       \* the document each task read
  ending,     \* why a task ends early
  copy,       \* the document in the memory of each call
  deletions,  \* scheduled deletions of the entity's vectors
  sweep,      \* the orphan sweep
  writes,     \* calls so far
  mishaps,    \* faults so far
  causes      \* history: how vectors and document may have come to disagree

task == <<pc, plan, seen, ending>>
vars == <<doc, vectors, lease, task, copy, deletions, sweep, writes, mishaps, causes>>

Docs == [at : {"live"}, content : Contents, enabled : Enabled, marker : Markers \cup {Unset}]
Unborn == [at |-> "unborn", marker |-> Unset]
Gone == [at |-> "deleted", marker |-> Unset]
NoDoc == [at |-> "none", marker |-> Unset]
NoVectors == [content |-> "none"]
VectorSets == [content : Contents \cup {"mixed"}, enabled : Enabled] \cup {NoVectors}
Plans == [by : {"nobody", "call", "reconciler", "federation"},
          marker : Markers \cup {Unset}, full : BOOLEAN]
NoPlan == [by |-> "nobody", marker |-> Unset, full |-> FALSE]

Idle == "idle"
Writing == {"write", "insert"}
Coupled == {"read", "stamp", "reread", "assert", "clear"} \cup Writing  \* within run_with_lease
Unmarked == Writing \cup {"clear", "dirty", "disown"}   \* may have written, not marked yet
States == {Idle, "claim", "dirty", "disown", "release", "requeue"} \cup Coupled

TypeOK ==
  /\ doc \in Docs \cup {Unborn, Gone}
  /\ vectors \in VectorSets
  /\ lease \in [holder : Tasks \cup {"nobody"}, live : BOOLEAN]
  /\ pc \in [Tasks -> States]
  /\ plan \in [Tasks -> Plans]
  /\ seen \in [Tasks -> Docs \cup {NoDoc}]
  /\ ending \in [Tasks -> {"no", "lost", "shutdown", "failed"}]
  /\ copy \in [Callers -> Docs \cup {NoDoc}]
  /\ deletions \in 0..MaxWrites
  /\ sweep \in {"idle", "found", "doomed"}
  /\ writes \in 0..MaxWrites
  /\ mishaps \in 0..MaxFaults
  /\ causes \subseteq {"overwrite", "unmarked", "lateEnd"}

Init ==
  /\ doc = Unborn
  /\ vectors = NoVectors
  /\ lease = [holder |-> "nobody", live |-> FALSE]
  /\ pc = [w \in Tasks |-> Idle]
  /\ plan = [w \in Tasks |-> NoPlan]
  /\ seen = [w \in Tasks |-> NoDoc]
  /\ ending = [w \in Tasks |-> "no"]
  /\ copy = [c \in Callers |-> NoDoc]
  /\ deletions = 0
  /\ sweep = "idle"
  /\ writes = 0
  /\ mishaps = 0
  /\ causes = {}

-----------------------------------------------------------------------------
(* Markers are timestamps: a new one is none that anybody remembers. *)

Remembered ==
  {doc.marker} \cup {plan[w].marker : w \in Tasks} \cup {seen[w].marker : w \in Tasks}
               \cup {copy[c].marker : c \in Callers}
Now == CHOOSE m \in Markers : m \notin Remembered
ClockGoesOn == Now \in Markers \ Remembered

Live == doc.at = "live"
Pending(d) == d.marker # Unset
Marked(d) == [d EXCEPT !.marker = Now]                  \* _mark_vector_sync_pending
(* Mutant: an upsert, which brings back a part of a deleted entity. *)
MarkUpserts == doc' = Marked(doc)
MarkDirty == doc' = IF Live THEN Marked(doc) ELSE doc   \* _mark_dirty

-----------------------------------------------------------------------------
(* API calls *)

Calls(n) == writes + n <= MaxWrites /\ writes' = writes + n
Starts(w, by, marker, full) ==
  /\ pc[w] = Idle
  /\ pc' = [pc EXCEPT ![w] = "claim"]
  /\ plan' = [plan EXCEPT ![w] = [by |-> by, marker |-> marker, full |-> full]]
  /\ UNCHANGED <<seen, ending>>

(* The task that follows the commit, unless the tracker refuses it or the  *)
(* pod dies in between.                                                    *)
ScheduleVectorSync(marker, full) ==
  \/ \E w \in Tasks : Starts(w, "call", marker, full)
  \/ UNCHANGED task

(* create_agent, and a federation's creations *)
Create(content) ==
  /\ doc = Unborn
  /\ ClockGoesOn /\ Calls(1)
  /\ doc' = [at |-> "live", content |-> content, enabled |-> "enabled", marker |-> Now]
  /\ ScheduleVectorSync(Now, TRUE)
  /\ UNCHANGED <<vectors, lease, copy, deletions, sweep, mishaps, causes>>

(* Mutant: a sync that is still pending does not make the next one full. *)
FullUnlessSame(old, content) == content # old.content
FullResync(old, content) == Pending(old) \/ content # old.content

(* update_server, update_agent: one transaction *)
Update(content, enabled) ==
  /\ Live /\ ClockGoesOn /\ Calls(1)
  /\ doc' = Marked([doc EXCEPT !.content = content, !.enabled = enabled])
  /\ ScheduleVectorSync(Now, FullResync(doc, content))
  /\ UNCHANGED <<vectors, lease, copy, deletions, sweep, mishaps, causes>>

(* delete_server, delete_agent: the deletion of the vectors may be lost. *)
Delete ==
  /\ Live /\ Calls(1)
  /\ doc' = Gone
  /\ deletions' \in {deletions, deletions + 1}
  /\ UNCHANGED <<vectors, lease, task, copy, sweep, mishaps, causes>>

(* fetch_registration_capabilities: a targeted write without a marker *)
Enrich(content) ==
  /\ Live /\ Calls(1)
  /\ doc' = [doc EXCEPT !.content = content]
  /\ causes' = IF content = doc.content THEN causes ELSE causes \cup {"unmarked"}
  /\ UNCHANGED <<vectors, lease, task, copy, deletions, sweep, mishaps>>

(* The calls below read the entity, ask a remote server, and save all of   *)
(* what they read, changed; save() inserts an entity that is gone.         *)
Read(c) ==
  /\ Live /\ copy[c] = NoDoc
  /\ Calls(1)
  /\ copy' = [copy EXCEPT ![c] = doc]
  /\ UNCHANGED <<doc, vectors, lease, task, deletions, sweep, mishaps, causes>>

Returns(c) == copy' = [copy EXCEPT ![c] = NoDoc]
Stale(c) == IF copy[c] = doc THEN {} ELSE {"overwrite"}

SaveMarked(c, content, enabled, full) ==
  /\ copy[c] # NoDoc /\ ClockGoesOn
  /\ doc' = Marked([copy[c] EXCEPT !.content = content, !.enabled = enabled])
  /\ causes' = causes \cup Stale(c)
  /\ ScheduleVectorSync(Now, full)
  /\ Returns(c)
  /\ UNCHANGED <<vectors, lease, deletions, sweep, writes, mishaps>>

(* toggle_server_status, toggle_agent_status, update_disabled_tools *)
Enable(c) == \E content \in Contents : SaveMarked(c, content, "enabled", TRUE)
Disable(c) == SaveMarked(c, copy[c].content, "disabled", FullResync(copy[c], copy[c].content))
(* refresh_server_capabilities, sync_wellknown *)
Refresh(c) == \E content \in Contents :
                SaveMarked(c, content, copy[c].enabled, FullResync(copy[c], content))

(* The remote server failed: the rollback of enabling, or lastError. *)
SaveUnmarked(c, enabled) ==
  /\ copy[c] # NoDoc
  /\ doc' = [copy[c] EXCEPT !.enabled = enabled]
  /\ causes' = causes \cup Stale(c)
                 \cup IF enabled = copy[c].enabled THEN {} ELSE {"unmarked"}
  /\ Returns(c)
  /\ UNCHANGED <<vectors, lease, task, deletions, sweep, writes, mishaps>>
RollBack(c) == SaveUnmarked(c, "disabled")
RecordError(c) == SaveUnmarked(c, copy[c].enabled)

-----------------------------------------------------------------------------
(* sync_pending_vectors *)

Goto(w, state) == pc' = [pc EXCEPT ![w] = state] /\ UNCHANGED <<plan, seen, ending>>
Ends(w, why, state) ==
  /\ pc' = [pc EXCEPT ![w] = state]
  /\ ending' = [ending EXCEPT ![w] = why]
  /\ UNCHANGED <<plan, seen>>
Forget(w) ==
  /\ pc' = [pc EXCEPT ![w] = Idle]
  /\ plan' = [plan EXCEPT ![w] = NoPlan]
  /\ seen' = [seen EXCEPT ![w] = NoDoc]
  /\ ending' = [ending EXCEPT ![w] = "no"]

(* One pass of the reconciler at a time, its leader lease permitting. *)
Reconcile(w) ==
  /\ Live /\ Pending(doc)
  /\ "lapse" \in Faults \/ \A v \in Tasks : plan[v].by # "reconciler"
  /\ Starts(w, "reconciler", doc.marker, TRUE)
  /\ UNCHANGED <<doc, vectors, lease, copy, deletions, sweep, writes, mishaps, causes>>

(* _sync_mcp_vectors_for_runtime: a federation's repair, marked or not. *)
Repair(w) ==
  /\ Live /\ Calls(1)
  /\ Starts(w, "federation", Unset, TRUE)
  /\ UNCHANGED <<doc, vectors, lease, copy, deletions, sweep, mishaps, causes>>

Owns(w) == lease.holder = w /\ lease.live
(* Mutant: the lease of a task that died is never taken over. *)
ClaimableFree == lease.holder = "nobody"
Claimable == lease.holder = "nobody" \/ ~lease.live        \* leader_claimable_filter

Claim(w) ==
  /\ pc[w] = "claim"
  /\ IF Claimable
       THEN lease' = [holder |-> w, live |-> TRUE] /\ Goto(w, "read")
       ELSE UNCHANGED lease /\ Forget(w)                   \* VectorSyncBusyError
  /\ UNCHANGED <<doc, vectors, copy, deletions, sweep, writes, mishaps, causes>>

Reads(w) ==
  /\ seen' = [seen EXCEPT ![w] = doc]
  /\ pc' = [pc EXCEPT ![w] = "assert"]
  /\ UNCHANGED <<plan, ending>>

(* _execute *)
Load(w) ==
  /\ pc[w] = "read"
  /\ CASE ~Live -> Goto(w, "release")
       [] Live /\ Pending(doc) -> Reads(w)
       [] Live /\ ~Pending(doc) -> Goto(w, IF plan[w].by = "federation" THEN "stamp" ELSE "release")
  /\ UNCHANGED <<doc, vectors, lease, copy, deletions, sweep, writes, mishaps, causes>>

Stamp(w) ==
  /\ pc[w] = "stamp"
  /\ ClockGoesOn /\ MarkDirty
  /\ Goto(w, "reread")
  /\ UNCHANGED <<vectors, lease, copy, deletions, sweep, writes, mishaps, causes>>

Reload(w) ==
  /\ pc[w] = "reread"
  /\ IF Live THEN Reads(w) ELSE Goto(w, "release")
  /\ UNCHANGED <<doc, vectors, lease, copy, deletions, sweep, writes, mishaps, causes>>

AssertOwned(w) ==
  /\ pc[w] = "assert"
  /\ IF Owns(w) THEN Goto(w, "write") ELSE Ends(w, "lost", "disown")
  /\ UNCHANGED <<doc, vectors, lease, copy, deletions, sweep, writes, mishaps, causes>>

(* Mutant: a plan is applied although its marker was replaced. *)
AsPlanned(w) == plan[w].by # "call" \/ plan[w].full
Full(w) == \/ plan[w].by # "call" \/ plan[w].full
           \/ seen[w].marker # plan[w].marker

(* The thread goes on when its task was cancelled (_drain). *)
Written(w) == Goto(w, IF ending[w] = "no" THEN "clear" ELSE "dirty")

(* _write_vectors: everything anew, or a patch of the metadata.  A patch   *)
(* that does not find the number of objects it expects (those of other     *)
(* contents may have it) rebuilds them if the document is still the same.  *)
Write(w) ==
  /\ pc[w] = "write"
  /\ \/ /\ Full(w)
        /\ vectors' = NoVectors
        /\ Goto(w, "insert")
     \/ /\ ~Full(w) /\ vectors.content # seen[w].content
        /\ IF Live /\ doc.content = seen[w].content
             THEN vectors' = NoVectors /\ Goto(w, "insert")
             ELSE UNCHANGED vectors /\ Written(w)
     \/ /\ ~Full(w) /\ vectors # NoVectors
        /\ vectors' = [vectors EXCEPT !.enabled = seen[w].enabled]
        /\ Written(w)
  /\ UNCHANGED <<doc, lease, copy, deletions, sweep, writes, mishaps, causes>>

(* On top of another task's vectors the result is a mixture. *)
Insert(w) ==
  /\ pc[w] = "insert"
  /\ vectors' = [content |-> IF vectors = NoVectors THEN seen[w].content ELSE "mixed",
                 enabled |-> seen[w].enabled]
  /\ Written(w)
  /\ UNCHANGED <<doc, lease, copy, deletions, sweep, writes, mishaps, causes>>

(* Mutant: whatever marker there is, is cleared. *)
ClearsAny(w) == Live
Clears(w) == Live /\ doc.marker = seen[w].marker     \* clear_vector_sync_marker
Cleared(w) == IF Clears(w) THEN [doc EXCEPT !.marker = Unset] ELSE doc

(* The fence and the clear are one transaction. *)
Clear(w) ==
  /\ pc[w] = "clear"
  /\ IF Owns(w) THEN doc' = Cleared(w) /\ Goto(w, "release")
               ELSE UNCHANGED doc /\ Ends(w, "lost", "disown")
  /\ UNCHANGED <<vectors, lease, copy, deletions, sweep, writes, mishaps, causes>>

(* _mark_dirty: once where the write was cancelled, and once more by       *)
(* sync_pending_vectors if that was because the lease is lost.             *)
Dirty(w) ==
  /\ pc[w] = "dirty"
  /\ ClockGoesOn /\ MarkDirty
  /\ Goto(w, IF ending[w] = "lost" THEN "disown" ELSE "release")
  /\ UNCHANGED <<vectors, lease, copy, deletions, sweep, writes, mishaps, causes>>

(* Mutant: losing the lease does not mark the document. *)
NoDisown == doc' = doc
Disowned == MarkDirty
Disown(w) ==
  /\ pc[w] = "disown"
  /\ ClockGoesOn /\ Disowned
  /\ Goto(w, "release")
  /\ UNCHANGED <<vectors, lease, copy, deletions, sweep, writes, mishaps, causes>>

Release(w) ==
  /\ pc[w] = "release"
  /\ lease' = IF Owns(w) THEN [holder |-> "nobody", live |-> FALSE] ELSE lease
  /\ IF plan[w].by = "reconciler" /\ ending[w] \in {"lost", "failed"}
       THEN Goto(w, "requeue") ELSE Forget(w)
  /\ UNCHANGED <<doc, vectors, copy, deletions, sweep, writes, mishaps, causes>>

(* _requeue: the marker moves into the future if it is the one listed. *)
Requeue(w) ==
  /\ pc[w] = "requeue"
  /\ ClockGoesOn
  /\ doc' = IF Live /\ doc.marker = plan[w].marker THEN Marked(doc) ELSE doc
  /\ Forget(w)
  /\ UNCHANGED <<vectors, lease, copy, deletions, sweep, writes, mishaps, causes>>

SyncStep(w) ==
  \/ Claim(w) \/ Load(w) \/ Stamp(w) \/ Reload(w) \/ AssertOwned(w)
  \/ Write(w) \/ Insert(w) \/ Clear(w) \/ Dirty(w) \/ Disown(w)
  \/ Release(w) \/ Requeue(w)

-----------------------------------------------------------------------------
(* Faults *)

Fault(name) == name \in Faults /\ mishaps < MaxFaults /\ mishaps' = mishaps + 1

(* A cancelled task finishes its write of vectors; a transaction that is   *)
(* cancelled is committed or not.                                          *)
Cancelled(w, why) ==
  /\ ending[w] = "no" /\ pc[w] \in Coupled
  /\ Ends(w, why, CASE pc[w] \in Writing -> pc[w]
                    [] pc[w] = "clear" -> "dirty"
                    [] OTHER -> IF why = "lost" THEN "disown" ELSE "release")
  /\ doc' \in {doc} \cup IF pc[w] = "clear" /\ Owns(w) THEN {Cleared(w)} ELSE {}
  /\ UNCHANGED <<vectors, lease, copy, deletions, sweep, writes, causes>>

Shutdown(w) == Fault("shutdown") /\ Cancelled(w, "shutdown")
Silence(w) == Fault("silence") /\ Cancelled(w, "lost")
(* keep_lease_alive finds the lease gone. *)
LeaseLost(w) == ~Owns(w) /\ Cancelled(w, "lost") /\ UNCHANGED mishaps

(* An error ends a task before it finds out that it was superseded.        *)
WriteFails(w) ==
  /\ Fault("error")
  /\ pc[w] \in Writing
  /\ IF ending[w] = "no" THEN Ends(w, "failed", "release") ELSE Goto(w, "dirty")
  /\ causes' = causes \cup IF ending[w] = "no" /\ lease.holder # w THEN {"lateEnd"} ELSE {}
  /\ UNCHANGED <<doc, vectors, lease, copy, deletions, sweep, writes>>

Lapse ==
  /\ Fault("lapse")
  /\ lease.live
  /\ lease' = [lease EXCEPT !.live = FALSE]
  /\ UNCHANGED <<doc, vectors, task, copy, deletions, sweep, writes, causes>>

(* A task that was superseded dies before it marked the document. *)
Crash(w) ==
  /\ Fault("crash")
  /\ pc[w] # Idle
  /\ causes' = causes \cup IF pc[w] \in Unmarked /\ lease.holder # w THEN {"lateEnd"} ELSE {}
  /\ lease' = IF lease.holder = w THEN [lease EXCEPT !.live = FALSE] ELSE lease
  /\ Forget(w)
  /\ UNCHANGED <<doc, vectors, copy, deletions, sweep, writes>>

-----------------------------------------------------------------------------
(* Vectors without an entity *)

(* schedule_vector_delete: best effort *)
DeleteVectors ==
  /\ deletions > 0
  /\ deletions' = deletions - 1
  /\ \/ vectors' = NoVectors /\ UNCHANGED mishaps
     \/ Fault("error") /\ UNCHANGED vectors
  /\ UNCHANGED <<doc, lease, task, copy, sweep, writes, causes>>

(* VectorOrphanSweeper: the ids in Weaviate first, those in MongoDB after. *)
ListVectors ==
  /\ sweep = "idle" /\ vectors # NoVectors
  /\ sweep' = "found"
  /\ UNCHANGED <<doc, vectors, lease, task, copy, deletions, writes, mishaps, causes>>

(* Mutant: an id is looked up in Weaviate again. *)
KnownToWeaviate == vectors # NoVectors
Known == Live
ReadEntities ==
  /\ sweep = "found"
  /\ sweep' = IF Known THEN "idle" ELSE "doomed"
  /\ UNCHANGED <<doc, vectors, lease, task, copy, deletions, writes, mishaps, causes>>

DeleteOrphan ==
  /\ sweep = "doomed"
  /\ sweep' = "idle"
  /\ \/ vectors' = NoVectors /\ UNCHANGED mishaps
     \/ Fault("error") /\ UNCHANGED vectors
  /\ UNCHANGED <<doc, lease, task, copy, deletions, writes, causes>>

Sweep == ListVectors \/ ReadEntities \/ DeleteOrphan

-----------------------------------------------------------------------------
Call ==
  \/ \E content \in Contents : \/ Create(content) \/ Enrich(content)
                                \/ \E enabled \in Enabled : Update(content, enabled)
  \/ Delete
  \/ \E c \in Callers : \/ Read(c) \/ Enable(c) \/ Disable(c) \/ Refresh(c)
                        \/ RollBack(c) \/ RecordError(c)

Next ==
  \/ Call
  \/ \E w \in Tasks : \/ Reconcile(w) \/ Repair(w) \/ SyncStep(w) \/ LeaseLost(w)
                      \/ Shutdown(w) \/ Silence(w) \/ WriteFails(w) \/ Crash(w)
  \/ Lapse
  \/ DeleteVectors \/ Sweep

Spec == Init /\ [][Next]_vars

(* Tasks run, and the reconciler and the sweeper come back. *)
Fairness ==
  /\ \A w \in Tasks : WF_vars(SyncStep(w))
  /\ WF_vars(\E w \in Tasks : Reconcile(w))
  /\ WF_vars(DeleteVectors) /\ WF_vars(Sweep)
FairSpec == Spec /\ Fairness

-----------------------------------------------------------------------------
(* Properties *)

(* An entity without a marker has the vectors of its last commit, unless a *)
(* task that lost its lease is still to mark it.  Whatever tasks overtake  *)
(* each other, are cancelled, fail or die, only three things break this: a *)
(* save of what was read before another write, a change that sets no       *)
(* marker, and the failure or death of a task that outlived its lease.     *)
VectorsFollowDocument ==
  /\ Live /\ ~Pending(doc) /\ causes = {}
  /\ \A w \in Tasks : pc[w] \in Unmarked => Owns(w)
  => vectors = [content |-> doc.content, enabled |-> doc.enabled]

(* A change that was committed reaches the vectors (the marker goes), or   *)
(* the entity goes, even if the task it scheduled was lost.                *)
ChangesAreSynced == (Live /\ Pending(doc)) ~> ~(Live /\ Pending(doc))

(* The vectors of a deleted entity go, even those that a task which read   *)
(* it earlier wrote after the deletion.                                    *)
OrphansAreSwept == (doc.at = "deleted" /\ vectors # NoVectors) ~> (Live \/ vectors = NoVectors)
=============================================================================
