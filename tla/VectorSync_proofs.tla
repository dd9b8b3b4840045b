--------------------------- MODULE VectorSync_proofs ---------------------------
(***************************************************************************)
(* Theorems about VectorSync: its types, and that an entity without a      *)
(* marker has the vectors of its last commit.                              *)
(*                                                                         *)
(* What one step may do to the document, the vectors, the lease and what a *)
(* task knows is said once each, in a lemma with one case per action; the  *)
(* inductive invariant at the end follows from those lemmas alone.         *)
(***************************************************************************)
EXTENDS VectorSync, TLAPS

LEMMA ClockIsFresh ==
  ASSUME ClockGoesOn
  PROVE  /\ Now \in Markers /\ Now # Unset /\ Now # doc.marker
         /\ \A w \in Tasks : Now # plan[w].marker /\ Now # seen[w].marker
BY MarkersAssumption DEF ClockGoesOn, Remembered

Counted == deletions <= writes

LEMMA InitTypes == Init => TypeOK /\ Counted
BY BoundsAssumption
DEF Init, TypeOK, Counted, Docs, Unborn, VectorSets, NoVectors, Plans, NoPlan, States, Idle,
    NoDoc, Unset
TaskOK ==
  /\ pc \in [Tasks -> States] /\ plan \in [Tasks -> Plans]
  /\ seen \in [Tasks -> Docs \cup {NoDoc}]
  /\ ending \in [Tasks -> {"no", "lost", "shutdown", "failed"}]
DocOK == doc \in Docs \cup {Unborn, Gone}
StoreOK ==
  /\ vectors \in VectorSets
  /\ lease \in [holder : Tasks \cup {"nobody"}, live : BOOLEAN]
LEMMA LiveIsTyped ==
  ASSUME DocOK, Live
  PROVE  doc \in Docs
BY DEF DocOK, Live, Unborn, Gone

LEMMA MarkedIsTyped ==
  ASSUME NEW d \in Docs, ClockGoesOn
  PROVE  Marked(d) \in Docs
BY ClockIsFresh DEF Marked, Docs

LEMMA MarkTypes ==
  ASSUME DocOK, ClockGoesOn, MarkDirty
  PROVE  DocOK'
BY LiveIsTyped, MarkedIsTyped DEF DocOK, MarkDirty

LEMMA ClearedIsTyped ==
  ASSUME DocOK, NEW w \in Tasks
  PROVE  Cleared(w) \in Docs \cup {Unborn, Gone}
BY LiveIsTyped DEF DocOK, Cleared, Clears, Docs, Unset

LEMMA GotoTypes ==
  ASSUME TaskOK, NEW w \in Tasks, NEW s \in States, Goto(w, s)
  PROVE  TaskOK'
BY DEF TaskOK, Goto

LEMMA EndsTypes ==
  ASSUME TaskOK, NEW w \in Tasks, NEW s \in States, NEW y \in {"lost", "shutdown", "failed"},
         Ends(w, y, s)
  PROVE  TaskOK'
BY DEF TaskOK, Ends

LEMMA ForgetTypes ==
  ASSUME TaskOK, NEW w \in Tasks, Forget(w)
  PROVE  TaskOK'
BY DEF TaskOK, Forget, Plans, NoPlan, States, Idle, Unset

LEMMA ReadsTypes ==
  ASSUME TaskOK, DocOK, Live, NEW w \in Tasks, Reads(w)
  PROVE  TaskOK'
BY LiveIsTyped DEF TaskOK, Reads, States, Coupled

LEMMA StartsTypes ==
  ASSUME TaskOK, NEW w \in Tasks, NEW b \in {"call", "reconciler", "federation"},
         NEW m \in Markers \cup {Unset}, NEW f \in BOOLEAN, Starts(w, b, m, f)
  PROVE  TaskOK'
<1>1. [by |-> b, marker |-> m, full |-> f] \in Plans
  BY DEF Plans
<1> QED BY <1>1 DEF TaskOK, Starts, States, Coupled

LEMMA ScheduleTypes ==
  ASSUME TaskOK, ClockGoesOn, NEW f \in BOOLEAN, ScheduleVectorSync(Now, f)
  PROVE  TaskOK'
BY ClockIsFresh, StartsTypes DEF ScheduleVectorSync, task, TaskOK

LEMMA TaskTypeStep ==
  ASSUME TaskOK, DocOK, [Next]_vars
  PROVE  TaskOK'
<1>1. ASSUME NEW content \in Contents, Create(content) PROVE TaskOK'
  BY <1>1, ScheduleTypes
  DEF Create, FullResync, Pending
<1>2. ASSUME NEW content \in Contents, Enrich(content) PROVE TaskOK'
  BY <1>2
  DEF Enrich, Calls, task, TaskOK
<1>3. ASSUME NEW content \in Contents, NEW enabled \in Enabled, Update(content, enabled)
      PROVE  TaskOK'
  BY <1>3, ScheduleTypes
  DEF Update, FullResync, Pending
<1>4. CASE Delete
  BY <1>4
  DEF Delete, Calls, task, TaskOK
<1>5. ASSUME NEW c \in Callers, Read(c) PROVE TaskOK'
  BY <1>5
  DEF Read, Calls, task, TaskOK
<1>6. ASSUME NEW c \in Callers, Enable(c) PROVE TaskOK'
  BY <1>6, ScheduleTypes
  DEF Enable, SaveMarked, FullResync, Pending
<1>7. ASSUME NEW c \in Callers, Disable(c) PROVE TaskOK'
  BY <1>7, ScheduleTypes
  DEF Disable, SaveMarked, FullResync, Pending
<1>8. ASSUME NEW c \in Callers, Refresh(c) PROVE TaskOK'
  BY <1>8, ScheduleTypes
  DEF Refresh, SaveMarked, FullResync, Pending
<1>9. ASSUME NEW c \in Callers, RollBack(c) PROVE TaskOK'
  BY <1>9
  DEF RollBack, SaveUnmarked, Returns, Stale, task, TaskOK
<1>10. ASSUME NEW c \in Callers, RecordError(c) PROVE TaskOK'
  BY <1>10
  DEF RecordError, SaveUnmarked, Returns, Stale, task, TaskOK
<1>11. ASSUME NEW w \in Tasks, Reconcile(w) PROVE TaskOK'
  <2>1. doc \in Docs
    BY <1>11, LiveIsTyped DEF Reconcile
  <2>2. doc.marker \in Markers \cup {Unset}
    BY <2>1 DEF Docs
  <2> QED BY <1>11, <2>2, StartsTypes DEF Reconcile
<1>12. ASSUME NEW w \in Tasks, Repair(w) PROVE TaskOK'
  BY <1>12, StartsTypes DEF Repair
<1>13. ASSUME NEW w \in Tasks, Claim(w) PROVE TaskOK'
  BY <1>13, GotoTypes, ForgetTypes
  DEF Claim, States, Coupled, Writing, Idle
<1>14. ASSUME NEW w \in Tasks, Load(w) PROVE TaskOK'
  BY <1>14, GotoTypes, ReadsTypes
  DEF Load, States, Coupled, Writing, Idle
<1>15. ASSUME NEW w \in Tasks, Stamp(w) PROVE TaskOK'
  BY <1>15, GotoTypes
  DEF Stamp, States, Coupled, Writing, Idle
<1>16. ASSUME NEW w \in Tasks, Reload(w) PROVE TaskOK'
  BY <1>16, GotoTypes, ReadsTypes
  DEF Reload, States, Coupled, Writing, Idle
<1>17. ASSUME NEW w \in Tasks, AssertOwned(w) PROVE TaskOK'
  BY <1>17, GotoTypes, EndsTypes
  DEF AssertOwned, States, Coupled, Writing, Idle
<1>18. ASSUME NEW w \in Tasks, Write(w) PROVE TaskOK'
  BY <1>18, GotoTypes
  DEF Write, Written, States, Coupled, Writing, Idle
<1>19. ASSUME NEW w \in Tasks, Insert(w) PROVE TaskOK'
  BY <1>19, GotoTypes
  DEF Insert, Written, States, Coupled, Writing, Idle
<1>20. ASSUME NEW w \in Tasks, Clear(w) PROVE TaskOK'
  BY <1>20, GotoTypes, EndsTypes
  DEF Clear, States, Coupled, Writing, Idle
<1>21. ASSUME NEW w \in Tasks, Dirty(w) PROVE TaskOK'
  BY <1>21, GotoTypes
  DEF Dirty, States, Coupled, Writing, Idle
<1>22. ASSUME NEW w \in Tasks, Disown(w) PROVE TaskOK'
  BY <1>22, GotoTypes
  DEF Disown, States, Coupled, Writing, Idle
<1>23. ASSUME NEW w \in Tasks, Release(w) PROVE TaskOK'
  BY <1>23, GotoTypes, ForgetTypes
  DEF Release, States, Coupled, Writing, Idle
<1>24. ASSUME NEW w \in Tasks, Requeue(w) PROVE TaskOK'
  BY <1>24, ForgetTypes
  DEF Requeue
<1>25. ASSUME NEW w \in Tasks, LeaseLost(w) PROVE TaskOK'
  <2>1. PICK y \in {"lost", "shutdown"}, s \in States : Ends(w, y, s)
    BY <1>25 DEF LeaseLost, Cancelled, States, Coupled, Writing, Idle
  <2> QED BY <2>1, EndsTypes
<1>26. ASSUME NEW w \in Tasks, Shutdown(w) PROVE TaskOK'
  <2>1. PICK y \in {"lost", "shutdown"}, s \in States : Ends(w, y, s)
    BY <1>26 DEF Shutdown, Cancelled, States, Coupled, Writing, Idle
  <2> QED BY <2>1, EndsTypes
<1>27. ASSUME NEW w \in Tasks, Silence(w) PROVE TaskOK'
  <2>1. PICK y \in {"lost", "shutdown"}, s \in States : Ends(w, y, s)
    BY <1>27 DEF Silence, Cancelled, States, Coupled, Writing, Idle
  <2> QED BY <2>1, EndsTypes
<1>28. ASSUME NEW w \in Tasks, WriteFails(w) PROVE TaskOK'
  BY <1>28, GotoTypes, EndsTypes
  DEF WriteFails, States, Coupled, Writing, Idle
<1>29. ASSUME NEW w \in Tasks, Crash(w) PROVE TaskOK'
  BY <1>29, ForgetTypes
  DEF Crash
<1>30. CASE Lapse
  BY <1>30
  DEF Lapse, Fault, task, TaskOK
<1>31. CASE DeleteVectors
  BY <1>31
  DEF DeleteVectors, Fault, task, TaskOK
<1>32. CASE ListVectors
  BY <1>32
  DEF ListVectors, task, TaskOK
<1>33. CASE ReadEntities
  BY <1>33
  DEF ReadEntities, Known, task, TaskOK
<1>34. CASE DeleteOrphan
  BY <1>34
  DEF DeleteOrphan, Fault, task, TaskOK
<1>35. CASE UNCHANGED vars
  BY <1>35
  DEF vars, task, TaskOK
<1> QED BY <1>1, <1>2, <1>3, <1>4, <1>5, <1>6, <1>7, <1>8, <1>9, <1>10, <1>11, <1>12,
    <1>13, <1>14, <1>15, <1>16, <1>17, <1>18, <1>19, <1>20, <1>21, <1>22, <1>23, <1>24,
    <1>25, <1>26, <1>27, <1>28, <1>29, <1>30, <1>31, <1>32, <1>33, <1>34, <1>35
  DEF Next, Call, SyncStep, Sweep

LEMMA DocTypeStep ==
  ASSUME TypeOK, [Next]_vars
  PROVE  DocOK'
<1>1. ASSUME NEW content \in Contents, Create(content) PROVE DocOK'
  BY <1>1, ClockIsFresh
  DEF Create, DocOK, Docs, Enabled
<1>2. ASSUME NEW content \in Contents, Enrich(content) PROVE DocOK'
  BY <1>2, LiveIsTyped DEF Enrich, Docs, DocOK, TypeOK
<1>3. ASSUME NEW content \in Contents, NEW enabled \in Enabled, Update(content, enabled)
      PROVE  DocOK'
  <2>1. [doc EXCEPT !.content = content, !.enabled = enabled] \in Docs
    BY <1>3, LiveIsTyped DEF Update, Docs, DocOK, TypeOK
  <2> QED BY <1>3, <2>1, MarkedIsTyped DEF Update, DocOK
<1>4. CASE Delete
  BY <1>4 DEF Delete, DocOK
<1>5. ASSUME NEW c \in Callers, Read(c) PROVE DocOK'
  BY <1>5
  DEF Read, DocOK, TypeOK
<1>6. ASSUME NEW c \in Callers, Enable(c) PROVE DocOK'
  <2>1. copy[c] \in Docs /\ ClockGoesOn
    BY <1>6 DEF Enable, SaveMarked, TypeOK
  <2>2. PICK x \in Contents, e \in Enabled :
             doc' = Marked([copy[c] EXCEPT !.content = x, !.enabled = e])
    BY <1>6, <2>1 DEF Enable, SaveMarked, Docs, Enabled
  <2>3. [copy[c] EXCEPT !.content = x, !.enabled = e] \in Docs
    BY <2>1 DEF Docs
  <2> QED BY <2>1, <2>2, <2>3, MarkedIsTyped DEF DocOK
<1>7. ASSUME NEW c \in Callers, Disable(c) PROVE DocOK'
  <2>1. copy[c] \in Docs /\ ClockGoesOn
    BY <1>7 DEF Disable, SaveMarked, TypeOK
  <2>2. PICK x \in Contents, e \in Enabled :
             doc' = Marked([copy[c] EXCEPT !.content = x, !.enabled = e])
    BY <1>7, <2>1 DEF Disable, SaveMarked, Docs, Enabled
  <2>3. [copy[c] EXCEPT !.content = x, !.enabled = e] \in Docs
    BY <2>1 DEF Docs
  <2> QED BY <2>1, <2>2, <2>3, MarkedIsTyped DEF DocOK
<1>8. ASSUME NEW c \in Callers, Refresh(c) PROVE DocOK'
  <2>1. copy[c] \in Docs /\ ClockGoesOn
    BY <1>8 DEF Refresh, SaveMarked, TypeOK
  <2>2. PICK x \in Contents, e \in Enabled :
             doc' = Marked([copy[c] EXCEPT !.content = x, !.enabled = e])
    BY <1>8, <2>1 DEF Refresh, SaveMarked, Docs, Enabled
  <2>3. [copy[c] EXCEPT !.content = x, !.enabled = e] \in Docs
    BY <2>1 DEF Docs
  <2> QED BY <2>1, <2>2, <2>3, MarkedIsTyped DEF DocOK
<1>9. ASSUME NEW c \in Callers, RollBack(c) PROVE DocOK'
  <2>1. copy[c] \in Docs
    BY <1>9 DEF RollBack, SaveUnmarked, TypeOK
  <2> QED BY <1>9, <2>1 DEF RollBack, SaveUnmarked, Docs, Enabled, DocOK
<1>10. ASSUME NEW c \in Callers, RecordError(c) PROVE DocOK'
  <2>1. copy[c] \in Docs
    BY <1>10 DEF RecordError, SaveUnmarked, TypeOK
  <2> QED BY <1>10, <2>1 DEF RecordError, SaveUnmarked, Docs, Enabled, DocOK
<1>11. ASSUME NEW w \in Tasks, Reconcile(w) PROVE DocOK'
  BY <1>11
  DEF Reconcile, DocOK, TypeOK
<1>12. ASSUME NEW w \in Tasks, Repair(w) PROVE DocOK'
  BY <1>12
  DEF Repair, DocOK, TypeOK
<1>13. ASSUME NEW w \in Tasks, Claim(w) PROVE DocOK'
  BY <1>13
  DEF Claim, DocOK, TypeOK
<1>14. ASSUME NEW w \in Tasks, Load(w) PROVE DocOK'
  BY <1>14
  DEF Load, DocOK, TypeOK
<1>15. ASSUME NEW w \in Tasks, Stamp(w) PROVE DocOK'
  BY <1>15, MarkTypes
  DEF Stamp, DocOK, TypeOK
<1>16. ASSUME NEW w \in Tasks, Reload(w) PROVE DocOK'
  BY <1>16
  DEF Reload, DocOK, TypeOK
<1>17. ASSUME NEW w \in Tasks, AssertOwned(w) PROVE DocOK'
  BY <1>17
  DEF AssertOwned, DocOK, TypeOK
<1>18. ASSUME NEW w \in Tasks, Write(w) PROVE DocOK'
  BY <1>18
  DEF Write, DocOK, TypeOK
<1>19. ASSUME NEW w \in Tasks, Insert(w) PROVE DocOK'
  BY <1>19
  DEF Insert, DocOK, TypeOK
<1>20. ASSUME NEW w \in Tasks, Clear(w) PROVE DocOK'
  BY <1>20, ClearedIsTyped DEF Clear, DocOK, TypeOK
<1>21. ASSUME NEW w \in Tasks, Dirty(w) PROVE DocOK'
  BY <1>21, MarkTypes
  DEF Dirty, DocOK, TypeOK
<1>22. ASSUME NEW w \in Tasks, Disown(w) PROVE DocOK'
  BY <1>22, MarkTypes
  DEF Disown, DocOK, TypeOK, Disowned
<1>23. ASSUME NEW w \in Tasks, Release(w) PROVE DocOK'
  BY <1>23
  DEF Release, DocOK, TypeOK
<1>24. ASSUME NEW w \in Tasks, Requeue(w) PROVE DocOK'
  BY <1>24, LiveIsTyped, MarkedIsTyped DEF Requeue, DocOK, TypeOK
<1>25. ASSUME NEW w \in Tasks, LeaseLost(w) PROVE DocOK'
  BY <1>25, ClearedIsTyped DEF LeaseLost, Cancelled, DocOK, TypeOK
<1>26. ASSUME NEW w \in Tasks, Shutdown(w) PROVE DocOK'
  BY <1>26, ClearedIsTyped DEF Shutdown, Cancelled, DocOK, TypeOK
<1>27. ASSUME NEW w \in Tasks, Silence(w) PROVE DocOK'
  BY <1>27, ClearedIsTyped DEF Silence, Cancelled, DocOK, TypeOK
<1>28. ASSUME NEW w \in Tasks, WriteFails(w) PROVE DocOK'
  BY <1>28
  DEF WriteFails, DocOK, TypeOK
<1>29. ASSUME NEW w \in Tasks, Crash(w) PROVE DocOK'
  BY <1>29
  DEF Crash, DocOK, TypeOK
<1>30. CASE Lapse
  BY <1>30
  DEF Lapse, DocOK, TypeOK
<1>31. CASE DeleteVectors
  BY <1>31
  DEF DeleteVectors, DocOK, TypeOK
<1>32. CASE ListVectors
  BY <1>32
  DEF ListVectors, DocOK, TypeOK
<1>33. CASE ReadEntities
  BY <1>33
  DEF ReadEntities, DocOK, TypeOK
<1>34. CASE DeleteOrphan
  BY <1>34
  DEF DeleteOrphan, DocOK, TypeOK
<1>35. CASE UNCHANGED vars
  BY <1>35
  DEF vars, DocOK, TypeOK
<1> QED BY <1>1, <1>2, <1>3, <1>4, <1>5, <1>6, <1>7, <1>8, <1>9, <1>10, <1>11, <1>12,
    <1>13, <1>14, <1>15, <1>16, <1>17, <1>18, <1>19, <1>20, <1>21, <1>22, <1>23, <1>24,
    <1>25, <1>26, <1>27, <1>28, <1>29, <1>30, <1>31, <1>32, <1>33, <1>34, <1>35
  DEF Next, Call, SyncStep, Sweep

Rest ==
  /\ copy \in [Callers -> Docs \cup {NoDoc}]
  /\ deletions \in 0..MaxWrites /\ writes \in 0..MaxWrites /\ mishaps \in 0..MaxFaults
  /\ sweep \in {"idle", "found", "doomed"}
  /\ causes \subseteq {"overwrite", "unmarked", "lateEnd"}
  /\ Counted

LEMMA RestTypeStep ==
  ASSUME TypeOK, Counted, [Next]_vars
  PROVE  Rest'
<1>1. ASSUME NEW content \in Contents, Create(content) PROVE Rest'
  BY <1>1, BoundsAssumption
  DEF Create, Calls, TypeOK, Counted, Rest
<1>2. ASSUME NEW content \in Contents, Enrich(content) PROVE Rest'
  BY <1>2, BoundsAssumption
  DEF Enrich, Calls, TypeOK, Counted, Rest
<1>3. ASSUME NEW content \in Contents, NEW enabled \in Enabled, Update(content, enabled)
      PROVE  Rest'
  BY <1>3, BoundsAssumption
  DEF Update, Calls, TypeOK, Counted, Rest
<1>4. CASE Delete
  BY <1>4, BoundsAssumption
  DEF Delete, Calls, TypeOK, Counted, Rest
<1>5. ASSUME NEW c \in Callers, Read(c) PROVE Rest'
  BY <1>5, LiveIsTyped DEF Read, Calls, DocOK, TypeOK, Rest, Counted, task
<1>6. ASSUME NEW c \in Callers, Enable(c) PROVE Rest'
  BY <1>6
  DEF Enable, SaveMarked, Returns, Stale, Rest, TypeOK, Counted
<1>7. ASSUME NEW c \in Callers, Disable(c) PROVE Rest'
  BY <1>7
  DEF Disable, SaveMarked, Returns, Stale, Rest, TypeOK, Counted
<1>8. ASSUME NEW c \in Callers, Refresh(c) PROVE Rest'
  BY <1>8
  DEF Refresh, SaveMarked, Returns, Stale, Rest, TypeOK, Counted
<1>9. ASSUME NEW c \in Callers, RollBack(c) PROVE Rest'
  BY <1>9
  DEF RollBack, SaveUnmarked, Returns, Stale, Rest, TypeOK, Counted
<1>10. ASSUME NEW c \in Callers, RecordError(c) PROVE Rest'
  BY <1>10
  DEF RecordError, SaveUnmarked, Returns, Stale, Rest, TypeOK, Counted
<1>11. ASSUME NEW w \in Tasks, Reconcile(w) PROVE Rest'
  BY <1>11, BoundsAssumption
  DEF Reconcile, TypeOK, Counted, Rest
<1>12. ASSUME NEW w \in Tasks, Repair(w) PROVE Rest'
  BY <1>12, BoundsAssumption
  DEF Repair, Calls, TypeOK, Counted, Rest
<1>13. ASSUME NEW w \in Tasks, Claim(w) PROVE Rest'
  BY <1>13, BoundsAssumption
  DEF Claim, TypeOK, Counted, Rest
<1>14. ASSUME NEW w \in Tasks, Load(w) PROVE Rest'
  BY <1>14, BoundsAssumption
  DEF Load, TypeOK, Counted, Rest
<1>15. ASSUME NEW w \in Tasks, Stamp(w) PROVE Rest'
  BY <1>15, BoundsAssumption
  DEF Stamp, TypeOK, Counted, Rest
<1>16. ASSUME NEW w \in Tasks, Reload(w) PROVE Rest'
  BY <1>16, BoundsAssumption
  DEF Reload, TypeOK, Counted, Rest
<1>17. ASSUME NEW w \in Tasks, AssertOwned(w) PROVE Rest'
  BY <1>17, BoundsAssumption
  DEF AssertOwned, TypeOK, Counted, Rest
<1>18. ASSUME NEW w \in Tasks, Write(w) PROVE Rest'
  BY <1>18, BoundsAssumption
  DEF Write, TypeOK, Counted, Rest
<1>19. ASSUME NEW w \in Tasks, Insert(w) PROVE Rest'
  BY <1>19, BoundsAssumption
  DEF Insert, TypeOK, Counted, Rest
<1>20. ASSUME NEW w \in Tasks, Clear(w) PROVE Rest'
  BY <1>20, BoundsAssumption
  DEF Clear, TypeOK, Counted, Rest
<1>21. ASSUME NEW w \in Tasks, Dirty(w) PROVE Rest'
  BY <1>21, BoundsAssumption
  DEF Dirty, TypeOK, Counted, Rest
<1>22. ASSUME NEW w \in Tasks, Disown(w) PROVE Rest'
  BY <1>22, BoundsAssumption
  DEF Disown, TypeOK, Counted, Rest
<1>23. ASSUME NEW w \in Tasks, Release(w) PROVE Rest'
  BY <1>23, BoundsAssumption
  DEF Release, TypeOK, Counted, Rest
<1>24. ASSUME NEW w \in Tasks, Requeue(w) PROVE Rest'
  BY <1>24, BoundsAssumption
  DEF Requeue, TypeOK, Counted, Rest
<1>25. ASSUME NEW w \in Tasks, LeaseLost(w) PROVE Rest'
  BY <1>25, BoundsAssumption
  DEF LeaseLost, Cancelled, TypeOK, Counted, Rest
<1>26. ASSUME NEW w \in Tasks, Shutdown(w) PROVE Rest'
  BY <1>26, BoundsAssumption
  DEF Shutdown, Cancelled, Fault, TypeOK, Counted, Rest
<1>27. ASSUME NEW w \in Tasks, Silence(w) PROVE Rest'
  BY <1>27, BoundsAssumption
  DEF Silence, Cancelled, Fault, TypeOK, Counted, Rest
<1>28. ASSUME NEW w \in Tasks, WriteFails(w) PROVE Rest'
  BY <1>28, BoundsAssumption
  DEF WriteFails, Fault, TypeOK, Counted, Rest
<1>29. ASSUME NEW w \in Tasks, Crash(w) PROVE Rest'
  BY <1>29, BoundsAssumption
  DEF Crash, Fault, TypeOK, Counted, Rest
<1>30. CASE Lapse
  BY <1>30, BoundsAssumption
  DEF Lapse, Fault, TypeOK, Counted, Rest
<1>31. CASE DeleteVectors
  BY <1>31, BoundsAssumption
  DEF DeleteVectors, Fault, TypeOK, Counted, Rest
<1>32. CASE ListVectors
  BY <1>32, BoundsAssumption
  DEF ListVectors, TypeOK, Counted, Rest
<1>33. CASE ReadEntities
  BY <1>33, BoundsAssumption
  DEF ReadEntities, Known, TypeOK, Counted, Rest
<1>34. CASE DeleteOrphan
  BY <1>34, BoundsAssumption
  DEF DeleteOrphan, Fault, TypeOK, Counted, Rest
<1>35. CASE UNCHANGED vars
  BY <1>35, BoundsAssumption
  DEF vars, TypeOK, Counted, Rest
<1> QED BY <1>1, <1>2, <1>3, <1>4, <1>5, <1>6, <1>7, <1>8, <1>9, <1>10, <1>11, <1>12,
    <1>13, <1>14, <1>15, <1>16, <1>17, <1>18, <1>19, <1>20, <1>21, <1>22, <1>23, <1>24,
    <1>25, <1>26, <1>27, <1>28, <1>29, <1>30, <1>31, <1>32, <1>33, <1>34, <1>35
  DEF Next, Call, SyncStep, Sweep

(* A task has read the entity before it writes vectors. *)
HasRead == {"assert", "write", "insert", "clear"}
ReadFirst == \A w \in Tasks : pc[w] \in HasRead => seen[w] # NoDoc

LEMMA ReadFirstStep ==
  ASSUME TypeOK, ReadFirst, [Next]_vars
  PROVE  ReadFirst'
<1>1. ASSUME NEW content \in Contents, Create(content) PROVE ReadFirst'
  BY <1>1
  DEF Create, ScheduleVectorSync, Starts, task, TypeOK, ReadFirst, HasRead, Live,
    Unborn, Gone, NoDoc, Writing, Idle
<1>2. ASSUME NEW content \in Contents, Enrich(content) PROVE ReadFirst'
  BY <1>2
  DEF Enrich, task, TypeOK, ReadFirst, HasRead, Live, Unborn, Gone, NoDoc, Writing, Idle
<1>3. ASSUME NEW content \in Contents, NEW enabled \in Enabled, Update(content, enabled)
      PROVE  ReadFirst'
  BY <1>3
  DEF Update, ScheduleVectorSync, Starts, task, TypeOK, ReadFirst, HasRead, Live,
    Unborn, Gone, NoDoc, Writing, Idle
<1>4. CASE Delete
  BY <1>4
  DEF Delete, task, TypeOK, ReadFirst, HasRead, Live, Unborn, Gone, NoDoc, Writing, Idle
<1>5. ASSUME NEW c \in Callers, Read(c) PROVE ReadFirst'
  BY <1>5
  DEF Read, task, TypeOK, ReadFirst, HasRead, Live, Unborn, Gone, NoDoc, Writing, Idle
<1>6. ASSUME NEW c \in Callers, Enable(c) PROVE ReadFirst'
  BY <1>6
  DEF Enable, SaveMarked, ScheduleVectorSync, Starts, task, TypeOK, ReadFirst, HasRead,
    Live, Unborn, Gone, NoDoc, Writing, Idle
<1>7. ASSUME NEW c \in Callers, Disable(c) PROVE ReadFirst'
  BY <1>7
  DEF Disable, SaveMarked, ScheduleVectorSync, Starts, task, TypeOK, ReadFirst, HasRead,
    Live, Unborn, Gone, NoDoc, Writing, Idle
<1>8. ASSUME NEW c \in Callers, Refresh(c) PROVE ReadFirst'
  BY <1>8
  DEF Refresh, SaveMarked, ScheduleVectorSync, Starts, task, TypeOK, ReadFirst, HasRead,
    Live, Unborn, Gone, NoDoc, Writing, Idle
<1>9. ASSUME NEW c \in Callers, RollBack(c) PROVE ReadFirst'
  BY <1>9
  DEF RollBack, SaveUnmarked, task, TypeOK, ReadFirst, HasRead, Live, Unborn, Gone,
    NoDoc, Writing, Idle
<1>10. ASSUME NEW c \in Callers, RecordError(c) PROVE ReadFirst'
  BY <1>10
  DEF RecordError, SaveUnmarked, task, TypeOK, ReadFirst, HasRead, Live, Unborn, Gone,
    NoDoc, Writing, Idle
<1>11. ASSUME NEW w \in Tasks, Reconcile(w) PROVE ReadFirst'
  BY <1>11
  DEF Reconcile, Starts, task, TypeOK, ReadFirst, HasRead, Live, Unborn, Gone, NoDoc,
    Writing, Idle
<1>12. ASSUME NEW w \in Tasks, Repair(w) PROVE ReadFirst'
  BY <1>12
  DEF Repair, Starts, task, TypeOK, ReadFirst, HasRead, Live, Unborn, Gone, NoDoc,
    Writing, Idle
<1>13. ASSUME NEW w \in Tasks, Claim(w) PROVE ReadFirst'
  BY <1>13
  DEF Claim, Goto, Forget, task, TypeOK, ReadFirst, HasRead, Live, Unborn, Gone, NoDoc,
    Writing, Idle
<1>14. ASSUME NEW w \in Tasks, Load(w) PROVE ReadFirst'
  <2>1. CASE Live /\ Reads(w)
    BY <2>1 DEF Reads, Live, NoDoc, TypeOK, ReadFirst
  <2>2. CASE Goto(w, "release") \/ Goto(w, "stamp")
    BY <2>2 DEF Goto, TypeOK, ReadFirst, HasRead
  <2> QED BY <1>14, <2>1, <2>2 DEF Load
<1>15. ASSUME NEW w \in Tasks, Stamp(w) PROVE ReadFirst'
  BY <1>15
  DEF Stamp, Goto, task, TypeOK, ReadFirst, HasRead, Live, Unborn, Gone, NoDoc, Writing,
    Idle
<1>16. ASSUME NEW w \in Tasks, Reload(w) PROVE ReadFirst'
  BY <1>16
  DEF Reload, Goto, Reads, task, TypeOK, ReadFirst, HasRead, Live, Unborn, Gone, NoDoc,
    Writing, Idle
<1>17. ASSUME NEW w \in Tasks, AssertOwned(w) PROVE ReadFirst'
  BY <1>17
  DEF AssertOwned, Goto, Ends, task, TypeOK, ReadFirst, HasRead, Live, Unborn, Gone,
    NoDoc, Writing, Idle
<1>18. ASSUME NEW w \in Tasks, Write(w) PROVE ReadFirst'
  BY <1>18
  DEF Write, Goto, Written, task, TypeOK, ReadFirst, HasRead, Live, Unborn, Gone, NoDoc,
    Writing, Idle
<1>19. ASSUME NEW w \in Tasks, Insert(w) PROVE ReadFirst'
  BY <1>19
  DEF Insert, Goto, Written, task, TypeOK, ReadFirst, HasRead, Live, Unborn, Gone,
    NoDoc, Writing, Idle
<1>20. ASSUME NEW w \in Tasks, Clear(w) PROVE ReadFirst'
  BY <1>20
  DEF Clear, Goto, Ends, task, TypeOK, ReadFirst, HasRead, Live, Unborn, Gone, NoDoc,
    Writing, Idle
<1>21. ASSUME NEW w \in Tasks, Dirty(w) PROVE ReadFirst'
  BY <1>21
  DEF Dirty, Goto, task, TypeOK, ReadFirst, HasRead, Live, Unborn, Gone, NoDoc, Writing,
    Idle
<1>22. ASSUME NEW w \in Tasks, Disown(w) PROVE ReadFirst'
  BY <1>22
  DEF Disown, Goto, task, TypeOK, ReadFirst, HasRead, Live, Unborn, Gone, NoDoc,
    Writing, Idle
<1>23. ASSUME NEW w \in Tasks, Release(w) PROVE ReadFirst'
  BY <1>23
  DEF Release, Goto, Forget, task, TypeOK, ReadFirst, HasRead, Live, Unborn, Gone,
    NoDoc, Writing, Idle
<1>24. ASSUME NEW w \in Tasks, Requeue(w) PROVE ReadFirst'
  BY <1>24
  DEF Requeue, Forget, task, TypeOK, ReadFirst, HasRead, Live, Unborn, Gone, NoDoc,
    Writing, Idle
<1>25. ASSUME NEW w \in Tasks, LeaseLost(w) PROVE ReadFirst'
  BY <1>25
  DEF LeaseLost, Cancelled, Ends, task, TypeOK, ReadFirst, HasRead, Live, Unborn, Gone,
    NoDoc, Writing, Idle
<1>26. ASSUME NEW w \in Tasks, Shutdown(w) PROVE ReadFirst'
  BY <1>26
  DEF Shutdown, Cancelled, Ends, Fault, task, TypeOK, ReadFirst, HasRead, Live, Unborn,
    Gone, NoDoc, Writing, Idle
<1>27. ASSUME NEW w \in Tasks, Silence(w) PROVE ReadFirst'
  BY <1>27
  DEF Silence, Cancelled, Ends, Fault, task, TypeOK, ReadFirst, HasRead, Live, Unborn,
    Gone, NoDoc, Writing, Idle
<1>28. ASSUME NEW w \in Tasks, WriteFails(w) PROVE ReadFirst'
  BY <1>28
  DEF WriteFails, Fault, Ends, Goto, task, TypeOK, ReadFirst, HasRead, Live, Unborn,
    Gone, NoDoc, Writing, Idle
<1>29. ASSUME NEW w \in Tasks, Crash(w) PROVE ReadFirst'
  BY <1>29
  DEF Crash, Fault, Forget, task, TypeOK, ReadFirst, HasRead, Live, Unborn, Gone, NoDoc,
    Writing, Idle
<1>30. CASE Lapse
  BY <1>30
  DEF Lapse, Fault, task, TypeOK, ReadFirst, HasRead, Live, Unborn, Gone, NoDoc,
    Writing, Idle
<1>31. CASE DeleteVectors
  BY <1>31
  DEF DeleteVectors, Fault, task, TypeOK, ReadFirst, HasRead, Live, Unborn, Gone, NoDoc,
    Writing, Idle
<1>32. CASE ListVectors
  BY <1>32
  DEF ListVectors, task, TypeOK, ReadFirst, HasRead, Live, Unborn, Gone, NoDoc, Writing,
    Idle
<1>33. CASE ReadEntities
  BY <1>33
  DEF ReadEntities, Known, task, TypeOK, ReadFirst, HasRead, Live, Unborn, Gone, NoDoc,
    Writing, Idle
<1>34. CASE DeleteOrphan
  BY <1>34
  DEF DeleteOrphan, Fault, task, TypeOK, ReadFirst, HasRead, Live, Unborn, Gone, NoDoc,
    Writing, Idle
<1>35. CASE UNCHANGED vars
  BY <1>35
  DEF vars, task, TypeOK, ReadFirst, HasRead, Live, Unborn, Gone, NoDoc, Writing, Idle
<1> QED BY <1>1, <1>2, <1>3, <1>4, <1>5, <1>6, <1>7, <1>8, <1>9, <1>10, <1>11, <1>12,
    <1>13, <1>14, <1>15, <1>16, <1>17, <1>18, <1>19, <1>20, <1>21, <1>22, <1>23, <1>24,
    <1>25, <1>26, <1>27, <1>28, <1>29, <1>30, <1>31, <1>32, <1>33, <1>34, <1>35
  DEF Next, Call, SyncStep, Sweep

LEMMA StoreTypeStep ==
  ASSUME TypeOK, ReadFirst, [Next]_vars
  PROVE  StoreOK'
<1>1. ASSUME NEW content \in Contents, Create(content) PROVE StoreOK'
  BY <1>1
  DEF Create, TypeOK, StoreOK
<1>2. ASSUME NEW content \in Contents, Enrich(content) PROVE StoreOK'
  BY <1>2
  DEF Enrich, TypeOK, StoreOK
<1>3. ASSUME NEW content \in Contents, NEW enabled \in Enabled, Update(content, enabled)
      PROVE  StoreOK'
  BY <1>3
  DEF Update, TypeOK, StoreOK
<1>4. CASE Delete
  BY <1>4
  DEF Delete, TypeOK, StoreOK
<1>5. ASSUME NEW c \in Callers, Read(c) PROVE StoreOK'
  BY <1>5
  DEF Read, TypeOK, StoreOK
<1>6. ASSUME NEW c \in Callers, Enable(c) PROVE StoreOK'
  BY <1>6
  DEF Enable, SaveMarked, TypeOK, StoreOK
<1>7. ASSUME NEW c \in Callers, Disable(c) PROVE StoreOK'
  BY <1>7
  DEF Disable, SaveMarked, TypeOK, StoreOK
<1>8. ASSUME NEW c \in Callers, Refresh(c) PROVE StoreOK'
  BY <1>8
  DEF Refresh, SaveMarked, TypeOK, StoreOK
<1>9. ASSUME NEW c \in Callers, RollBack(c) PROVE StoreOK'
  BY <1>9
  DEF RollBack, SaveUnmarked, TypeOK, StoreOK
<1>10. ASSUME NEW c \in Callers, RecordError(c) PROVE StoreOK'
  BY <1>10
  DEF RecordError, SaveUnmarked, TypeOK, StoreOK
<1>11. ASSUME NEW w \in Tasks, Reconcile(w) PROVE StoreOK'
  BY <1>11
  DEF Reconcile, TypeOK, StoreOK
<1>12. ASSUME NEW w \in Tasks, Repair(w) PROVE StoreOK'
  BY <1>12
  DEF Repair, TypeOK, StoreOK
<1>13. ASSUME NEW w \in Tasks, Claim(w) PROVE StoreOK'
  <2>1. lease' = lease \/ lease' = [holder |-> w, live |-> TRUE]
    BY <1>13 DEF Claim
  <2>2. [holder |-> w, live |-> TRUE] \in [holder : Tasks \cup {"nobody"}, live : BOOLEAN]
    BY <1>13
  <2>3. lease' \in [holder : Tasks \cup {"nobody"}, live : BOOLEAN]
    BY <2>1, <2>2 DEF TypeOK
  <2>4. vectors' = vectors
    BY <1>13 DEF Claim
  <2> QED BY <2>3, <2>4 DEF TypeOK, StoreOK
<1>14. ASSUME NEW w \in Tasks, Load(w) PROVE StoreOK'
  BY <1>14
  DEF Load, TypeOK, StoreOK
<1>15. ASSUME NEW w \in Tasks, Stamp(w) PROVE StoreOK'
  BY <1>15
  DEF Stamp, TypeOK, StoreOK
<1>16. ASSUME NEW w \in Tasks, Reload(w) PROVE StoreOK'
  BY <1>16
  DEF Reload, TypeOK, StoreOK
<1>17. ASSUME NEW w \in Tasks, AssertOwned(w) PROVE StoreOK'
  BY <1>17
  DEF AssertOwned, TypeOK, StoreOK
<1>18. ASSUME NEW w \in Tasks, Write(w) PROVE StoreOK'
  <2>1. seen[w].content \in Contents /\ seen[w].enabled \in Enabled
    BY <1>18 DEF Write, TypeOK, ReadFirst, HasRead, Docs
  <2>2. vectors' \in VectorSets
    BY <1>18, <2>1 DEF Write, TypeOK, VectorSets, NoVectors
  <2> QED BY <1>18, <2>2 DEF Write, StoreOK, TypeOK
<1>19. ASSUME NEW w \in Tasks, Insert(w) PROVE StoreOK'
  <2>1. seen[w].content \in Contents /\ seen[w].enabled \in Enabled
    BY <1>19 DEF Insert, TypeOK, ReadFirst, HasRead, Docs
  <2> QED BY <1>19, <2>1 DEF Insert, StoreOK, TypeOK, VectorSets, NoVectors
<1>20. ASSUME NEW w \in Tasks, Clear(w) PROVE StoreOK'
  BY <1>20
  DEF Clear, TypeOK, StoreOK
<1>21. ASSUME NEW w \in Tasks, Dirty(w) PROVE StoreOK'
  BY <1>21
  DEF Dirty, TypeOK, StoreOK
<1>22. ASSUME NEW w \in Tasks, Disown(w) PROVE StoreOK'
  BY <1>22
  DEF Disown, TypeOK, StoreOK
<1>23. ASSUME NEW w \in Tasks, Release(w) PROVE StoreOK'
  BY <1>23
  DEF Release, TypeOK, StoreOK
<1>24. ASSUME NEW w \in Tasks, Requeue(w) PROVE StoreOK'
  BY <1>24
  DEF Requeue, TypeOK, StoreOK
<1>25. ASSUME NEW w \in Tasks, LeaseLost(w) PROVE StoreOK'
  BY <1>25
  DEF LeaseLost, Cancelled, TypeOK, StoreOK
<1>26. ASSUME NEW w \in Tasks, Shutdown(w) PROVE StoreOK'
  BY <1>26
  DEF Shutdown, Cancelled, Fault, TypeOK, StoreOK
<1>27. ASSUME NEW w \in Tasks, Silence(w) PROVE StoreOK'
  BY <1>27
  DEF Silence, Cancelled, Fault, TypeOK, StoreOK
<1>28. ASSUME NEW w \in Tasks, WriteFails(w) PROVE StoreOK'
  BY <1>28
  DEF WriteFails, Fault, TypeOK, StoreOK
<1>29. ASSUME NEW w \in Tasks, Crash(w) PROVE StoreOK'
  BY <1>29
  DEF Crash, TypeOK, StoreOK
<1>30. CASE Lapse
  BY <1>30
  DEF Lapse, TypeOK, StoreOK
<1>31. CASE DeleteVectors
  BY <1>31
  DEF DeleteVectors, TypeOK, StoreOK, VectorSets
<1>32. CASE ListVectors
  BY <1>32
  DEF ListVectors, TypeOK, StoreOK
<1>33. CASE ReadEntities
  BY <1>33
  DEF ReadEntities, Known, TypeOK, StoreOK
<1>34. CASE DeleteOrphan
  BY <1>34
  DEF DeleteOrphan, TypeOK, StoreOK, VectorSets
<1>35. CASE UNCHANGED vars
  BY <1>35
  DEF vars, TypeOK, StoreOK
<1> QED BY <1>1, <1>2, <1>3, <1>4, <1>5, <1>6, <1>7, <1>8, <1>9, <1>10, <1>11, <1>12,
    <1>13, <1>14, <1>15, <1>16, <1>17, <1>18, <1>19, <1>20, <1>21, <1>22, <1>23, <1>24,
    <1>25, <1>26, <1>27, <1>28, <1>29, <1>30, <1>31, <1>32, <1>33, <1>34, <1>35
  DEF Next, Call, SyncStep, Sweep

TypeInv == TypeOK /\ Counted /\ ReadFirst

LEMMA InitTyped == Init => TypeInv
BY InitTypes DEF TypeInv, ReadFirst, HasRead, Init, Idle

LEMMA TypeStep ==
  ASSUME TypeInv, [Next]_vars
  PROVE  TypeInv'
<1>1. TaskOK /\ DocOK
  BY DEF TypeInv, TypeOK, TaskOK, DocOK
<1>2. TaskOK' /\ DocOK'
  BY <1>1, TaskTypeStep, DocTypeStep DEF TypeInv
<1>3. Rest' /\ StoreOK' /\ ReadFirst'
  BY RestTypeStep, StoreTypeStep, ReadFirstStep DEF TypeInv
<1> QED BY <1>2, <1>3 DEF TypeInv, TypeOK, TaskOK, DocOK, StoreOK, Rest

LEMMA TypeInvariant == Spec => []TypeInv
BY InitTyped, TypeStep, PTL DEF Spec

(* Every variable of the model keeps its type. *)
THEOREM TypeCorrect == Spec => []TypeOK
BY TypeInvariant, PTL DEF TypeInv

-----------------------------------------------------------------------------
(* What one step may do to the document, the vectors, the leases and what *)
(* tasks know, while nothing has brought document and vectors apart.       *)

Held == {"reread"} \cup HasRead
NoDanger == \A w \in Tasks : pc[w] \in Unmarked => lease.holder = w
Calm == causes = {} /\ Live /\ NoDanger
Follows == vectors = [content |-> doc.content, enabled |-> doc.enabled]

LEMMA CausesStay ==
  ASSUME [Next]_vars, causes' = {}
  PROVE  causes = {}
<1>1. ASSUME NEW content \in Contents, Create(content) PROVE causes = {}
  BY <1>1, causes' = {}
  DEF Create
<1>2. ASSUME NEW content \in Contents, Enrich(content) PROVE causes = {}
  BY <1>2, causes' = {}
  DEF Enrich
<1>3. ASSUME NEW content \in Contents, NEW enabled \in Enabled, Update(content, enabled)
      PROVE  causes = {}
  BY <1>3, causes' = {}
  DEF Update
<1>4. CASE Delete
  BY <1>4, causes' = {}
  DEF Delete
<1>5. ASSUME NEW c \in Callers, Read(c) PROVE causes = {}
  BY <1>5, causes' = {}
  DEF Read
<1>6. ASSUME NEW c \in Callers, Enable(c) PROVE causes = {}
  BY <1>6, causes' = {}
  DEF Enable, SaveMarked
<1>7. ASSUME NEW c \in Callers, Disable(c) PROVE causes = {}
  BY <1>7, causes' = {}
  DEF Disable, SaveMarked
<1>8. ASSUME NEW c \in Callers, Refresh(c) PROVE causes = {}
  BY <1>8, causes' = {}
  DEF Refresh, SaveMarked
<1>9. ASSUME NEW c \in Callers, RollBack(c) PROVE causes = {}
  BY <1>9, causes' = {}
  DEF RollBack, SaveUnmarked
<1>10. ASSUME NEW c \in Callers, RecordError(c) PROVE causes = {}
  BY <1>10, causes' = {}
  DEF RecordError, SaveUnmarked
<1>11. ASSUME NEW w \in Tasks, Reconcile(w) PROVE causes = {}
  BY <1>11, causes' = {}
  DEF Reconcile
<1>12. ASSUME NEW w \in Tasks, Repair(w) PROVE causes = {}
  BY <1>12, causes' = {}
  DEF Repair
<1>13. ASSUME NEW w \in Tasks, Claim(w) PROVE causes = {}
  BY <1>13, causes' = {}
  DEF Claim
<1>14. ASSUME NEW w \in Tasks, Load(w) PROVE causes = {}
  BY <1>14, causes' = {}
  DEF Load
<1>15. ASSUME NEW w \in Tasks, Stamp(w) PROVE causes = {}
  BY <1>15, causes' = {}
  DEF Stamp
<1>16. ASSUME NEW w \in Tasks, Reload(w) PROVE causes = {}
  BY <1>16, causes' = {}
  DEF Reload
<1>17. ASSUME NEW w \in Tasks, AssertOwned(w) PROVE causes = {}
  BY <1>17, causes' = {}
  DEF AssertOwned
<1>18. ASSUME NEW w \in Tasks, Write(w) PROVE causes = {}
  BY <1>18, causes' = {}
  DEF Write
<1>19. ASSUME NEW w \in Tasks, Insert(w) PROVE causes = {}
  BY <1>19, causes' = {}
  DEF Insert
<1>20. ASSUME NEW w \in Tasks, Clear(w) PROVE causes = {}
  BY <1>20, causes' = {}
  DEF Clear
<1>21. ASSUME NEW w \in Tasks, Dirty(w) PROVE causes = {}
  BY <1>21, causes' = {}
  DEF Dirty
<1>22. ASSUME NEW w \in Tasks, Disown(w) PROVE causes = {}
  BY <1>22, causes' = {}
  DEF Disown
<1>23. ASSUME NEW w \in Tasks, Release(w) PROVE causes = {}
  BY <1>23, causes' = {}
  DEF Release
<1>24. ASSUME NEW w \in Tasks, Requeue(w) PROVE causes = {}
  BY <1>24, causes' = {}
  DEF Requeue
<1>25. ASSUME NEW w \in Tasks, LeaseLost(w) PROVE causes = {}
  BY <1>25, causes' = {}
  DEF LeaseLost, Cancelled
<1>26. ASSUME NEW w \in Tasks, Shutdown(w) PROVE causes = {}
  BY <1>26, causes' = {}
  DEF Shutdown, Cancelled
<1>27. ASSUME NEW w \in Tasks, Silence(w) PROVE causes = {}
  BY <1>27, causes' = {}
  DEF Silence, Cancelled
<1>28. ASSUME NEW w \in Tasks, WriteFails(w) PROVE causes = {}
  BY <1>28, causes' = {}
  DEF WriteFails
<1>29. ASSUME NEW w \in Tasks, Crash(w) PROVE causes = {}
  BY <1>29, causes' = {}
  DEF Crash
<1>30. CASE Lapse
  BY <1>30, causes' = {}
  DEF Lapse
<1>31. CASE DeleteVectors
  BY <1>31, causes' = {}
  DEF DeleteVectors
<1>32. CASE ListVectors
  BY <1>32, causes' = {}
  DEF ListVectors
<1>33. CASE ReadEntities
  BY <1>33, causes' = {}
  DEF ReadEntities, Known
<1>34. CASE DeleteOrphan
  BY <1>34, causes' = {}
  DEF DeleteOrphan
<1>35. CASE UNCHANGED vars
  BY <1>35, causes' = {}
  DEF vars
<1> QED BY <1>1, <1>2, <1>3, <1>4, <1>5, <1>6, <1>7, <1>8, <1>9, <1>10, <1>11, <1>12,
    <1>13, <1>14, <1>15, <1>16, <1>17, <1>18, <1>19, <1>20, <1>21, <1>22, <1>23, <1>24,
    <1>25, <1>26, <1>27, <1>28, <1>29, <1>30, <1>31, <1>32, <1>33, <1>34, <1>35
  DEF Next, Call, SyncStep, Sweep

(* The document gets a marker that nobody has seen. *)
Marks ==
  /\ Pending(doc')
  /\ doc'.marker # doc.marker
  /\ \A w \in Tasks : seen'[w].marker # doc'.marker
  /\ \A w \in Tasks : plan'[w] = plan[w] => plan'[w].marker # doc'.marker

(* The holder of the lease clears the marker it has seen. *)
Settles(w) ==
  /\ pc[w] = "clear" /\ lease.holder = w /\ seen[w].marker = doc.marker
  /\ Live /\ doc' = [doc EXCEPT !.marker = Unset]
  /\ pc'[w] \in {"release", "dirty"}
  /\ lease' = lease /\ vectors' = vectors

LEMMA MarkMarks ==
  ASSUME TypeInv, ClockGoesOn, doc'.marker = Now,
         \A w \in Tasks : seen'[w] = seen[w] \/ seen'[w] = NoDoc
  PROVE  Marks
BY ClockIsFresh DEF Marks, Pending, NoDoc

LEMMA StampMarks ==
  ASSUME TypeInv, ClockGoesOn, MarkDirty, Live', UNCHANGED seen
  PROVE  Marks
<1>1. Live
  BY DEF MarkDirty, Live
<1>2. doc' = Marked(doc) /\ doc \in Docs
  BY <1>1, LiveIsTyped DEF MarkDirty, TypeInv, TypeOK, DocOK
<1>3. doc'.marker = Now
  BY <1>2 DEF Marked, Docs
<1> QED BY <1>3, MarkMarks

LEMMA DocStep ==
  ASSUME TypeInv, [Next]_vars, causes' = {}, Live'
  PROVE  doc' = doc \/ Marks \/ \E w \in Tasks : Settles(w)
<1>1. ASSUME NEW content \in Contents, Create(content)
      PROVE  doc' = doc \/ Marks \/ \E v \in Tasks : Settles(v)
  <2>1. doc'.marker = Now /\ seen' = seen /\ ClockGoesOn
    BY <1>1 DEF Create, ScheduleVectorSync, Starts, task
  <2> QED BY <2>1, MarkMarks
<1>2. ASSUME NEW content \in Contents, Enrich(content)
      PROVE  doc' = doc \/ Marks \/ \E v \in Tasks : Settles(v)
  <2>1. doc \in Docs /\ content = doc.content
    BY <1>2, LiveIsTyped, causes' = {} DEF Enrich, TypeInv, TypeOK, DocOK
  <2> QED BY <1>2, <2>1 DEF Enrich, Docs
<1>3. ASSUME NEW content \in Contents, NEW enabled \in Enabled, Update(content, enabled)
      PROVE  doc' = doc \/ Marks \/ \E v \in Tasks : Settles(v)
  <2>1. [doc EXCEPT !.content = content, !.enabled = enabled] \in Docs
    BY <1>3, LiveIsTyped DEF Update, Docs, DocOK, TypeInv, TypeOK
  <2>2. doc'.marker = Now /\ seen' = seen /\ ClockGoesOn
    BY <1>3, <2>1 DEF Update, Marked, Docs, ScheduleVectorSync, Starts, task
  <2> QED BY <2>2, MarkMarks
<1>4. CASE Delete
  BY <1>4, Live' DEF Delete, Live, Gone
<1>5. ASSUME NEW c \in Callers, Read(c)
      PROVE  doc' = doc \/ Marks \/ \E v \in Tasks : Settles(v)
  BY <1>5
  DEF Read
<1>6. ASSUME NEW c \in Callers, Enable(c)
      PROVE  doc' = doc \/ Marks \/ \E v \in Tasks : Settles(v)
  <2>1. copy[c] \in Docs /\ ClockGoesOn /\ seen' = seen
    BY <1>6 DEF Enable, SaveMarked, TypeInv, TypeOK, ScheduleVectorSync, Starts, task
  <2>2. \E x, e : doc' = Marked([copy[c] EXCEPT !.content = x, !.enabled = e])
    BY <1>6 DEF Enable, SaveMarked
  <2>3. doc'.marker = Now
    BY <2>1, <2>2 DEF Marked, Docs
  <2> QED BY <2>1, <2>3, MarkMarks
<1>7. ASSUME NEW c \in Callers, Disable(c)
      PROVE  doc' = doc \/ Marks \/ \E v \in Tasks : Settles(v)
  <2>1. copy[c] \in Docs /\ ClockGoesOn /\ seen' = seen
    BY <1>7 DEF Disable, SaveMarked, TypeInv, TypeOK, ScheduleVectorSync, Starts, task
  <2>2. \E x, e : doc' = Marked([copy[c] EXCEPT !.content = x, !.enabled = e])
    BY <1>7 DEF Disable, SaveMarked
  <2>3. doc'.marker = Now
    BY <2>1, <2>2 DEF Marked, Docs
  <2> QED BY <2>1, <2>3, MarkMarks
<1>8. ASSUME NEW c \in Callers, Refresh(c)
      PROVE  doc' = doc \/ Marks \/ \E v \in Tasks : Settles(v)
  <2>1. copy[c] \in Docs /\ ClockGoesOn /\ seen' = seen
    BY <1>8 DEF Refresh, SaveMarked, TypeInv, TypeOK, ScheduleVectorSync, Starts, task
  <2>2. \E x, e : doc' = Marked([copy[c] EXCEPT !.content = x, !.enabled = e])
    BY <1>8 DEF Refresh, SaveMarked
  <2>3. doc'.marker = Now
    BY <2>1, <2>2 DEF Marked, Docs
  <2> QED BY <2>1, <2>3, MarkMarks
<1>9. ASSUME NEW c \in Callers, RollBack(c)
      PROVE  doc' = doc \/ Marks \/ \E v \in Tasks : Settles(v)
  <2>1. copy[c] = doc /\ copy[c] \in Docs
    BY <1>9, causes' = {} DEF RollBack, SaveUnmarked, Stale, TypeInv, TypeOK
  <2> QED BY <1>9, <2>1, causes' = {} DEF RollBack, SaveUnmarked, Docs
<1>10. ASSUME NEW c \in Callers, RecordError(c)
      PROVE  doc' = doc \/ Marks \/ \E v \in Tasks : Settles(v)
  <2>1. copy[c] = doc /\ copy[c] \in Docs
    BY <1>10, causes' = {} DEF RecordError, SaveUnmarked, Stale, TypeInv, TypeOK
  <2> QED BY <1>10, <2>1, causes' = {} DEF RecordError, SaveUnmarked, Docs
<1>11. ASSUME NEW w \in Tasks, Reconcile(w)
      PROVE  doc' = doc \/ Marks \/ \E v \in Tasks : Settles(v)
  BY <1>11
  DEF Reconcile
<1>12. ASSUME NEW w \in Tasks, Repair(w)
      PROVE  doc' = doc \/ Marks \/ \E v \in Tasks : Settles(v)
  BY <1>12
  DEF Repair
<1>13. ASSUME NEW w \in Tasks, Claim(w)
      PROVE  doc' = doc \/ Marks \/ \E v \in Tasks : Settles(v)
  BY <1>13
  DEF Claim
<1>14. ASSUME NEW w \in Tasks, Load(w) PROVE doc' = doc \/ Marks \/ \E v \in Tasks : Settles(v)
  BY <1>14
  DEF Load
<1>15. ASSUME NEW w \in Tasks, Stamp(w)
      PROVE  doc' = doc \/ Marks \/ \E v \in Tasks : Settles(v)
  BY <1>15, Live', StampMarks DEF Stamp, Goto
<1>16. ASSUME NEW w \in Tasks, Reload(w)
      PROVE  doc' = doc \/ Marks \/ \E v \in Tasks : Settles(v)
  BY <1>16
  DEF Reload
<1>17. ASSUME NEW w \in Tasks, AssertOwned(w)
      PROVE  doc' = doc \/ Marks \/ \E v \in Tasks : Settles(v)
  BY <1>17
  DEF AssertOwned
<1>18. ASSUME NEW w \in Tasks, Write(w)
      PROVE  doc' = doc \/ Marks \/ \E v \in Tasks : Settles(v)
  BY <1>18
  DEF Write
<1>19. ASSUME NEW w \in Tasks, Insert(w)
      PROVE  doc' = doc \/ Marks \/ \E v \in Tasks : Settles(v)
  BY <1>19
  DEF Insert
<1>20. ASSUME NEW w \in Tasks, Clear(w)
      PROVE  doc' = doc \/ Marks \/ \E v \in Tasks : Settles(v)
  <2>1. CASE Owns(w) /\ Clears(w)
    <3>1. pc'[w] = "release"
      BY <1>20, <2>1 DEF Clear, Goto, TypeInv, TypeOK
    <3> QED BY <1>20, <2>1, <3>1 DEF Clear, Cleared, Clears, Owns, Settles
  <2> QED BY <1>20, <2>1 DEF Clear, Cleared
<1>21. ASSUME NEW w \in Tasks, Dirty(w)
      PROVE  doc' = doc \/ Marks \/ \E v \in Tasks : Settles(v)
  BY <1>21, Live', StampMarks DEF Dirty, Goto
<1>22. ASSUME NEW w \in Tasks, Disown(w)
      PROVE  doc' = doc \/ Marks \/ \E v \in Tasks : Settles(v)
  BY <1>22, Live', StampMarks DEF Disown, Disowned, Goto
<1>23. ASSUME NEW w \in Tasks, Release(w)
      PROVE  doc' = doc \/ Marks \/ \E v \in Tasks : Settles(v)
  BY <1>23
  DEF Release
<1>24. ASSUME NEW w \in Tasks, Requeue(w)
      PROVE  doc' = doc \/ Marks \/ \E v \in Tasks : Settles(v)
  <2>1. CASE Live /\ doc.marker = plan[w].marker
    <3>1. doc' = Marked(doc) /\ doc \in Docs /\ ClockGoesOn
      BY <1>24, <2>1, LiveIsTyped DEF Requeue, TypeInv, TypeOK, DocOK
    <3>2. doc'.marker = Now
      BY <3>1 DEF Marked, Docs
    <3>3. \A v \in Tasks : seen'[v] = seen[v] \/ seen'[v] = NoDoc
      BY <1>24 DEF Requeue, Forget, TypeInv, TypeOK
    <3> QED BY <3>1, <3>2, <3>3, MarkMarks
  <2> QED BY <1>24, <2>1 DEF Requeue
<1>25. ASSUME NEW w \in Tasks, LeaseLost(w)
      PROVE  doc' = doc \/ Marks \/ \E v \in Tasks : Settles(v)
  <2>1. CASE pc[w] = "clear" /\ Owns(w) /\ Clears(w) /\ doc' = Cleared(w)
    <3>1. pc'[w] = "dirty"
      BY <1>25, <2>1 DEF LeaseLost, Cancelled, Ends, Writing, TypeInv, TypeOK
    <3> QED BY <1>25, <2>1, <3>1 DEF LeaseLost, Cancelled, Cleared, Clears, Owns, Settles
  <2> QED BY <1>25, <2>1 DEF LeaseLost, Cancelled, Cleared
<1>26. ASSUME NEW w \in Tasks, Shutdown(w)
      PROVE  doc' = doc \/ Marks \/ \E v \in Tasks : Settles(v)
  <2>1. CASE pc[w] = "clear" /\ Owns(w) /\ Clears(w) /\ doc' = Cleared(w)
    <3>1. pc'[w] = "dirty"
      BY <1>26, <2>1 DEF Shutdown, Cancelled, Ends, Writing, TypeInv, TypeOK
    <3> QED BY <1>26, <2>1, <3>1 DEF Shutdown, Cancelled, Cleared, Clears, Owns, Settles
  <2> QED BY <1>26, <2>1 DEF Shutdown, Cancelled, Cleared
<1>27. ASSUME NEW w \in Tasks, Silence(w)
      PROVE  doc' = doc \/ Marks \/ \E v \in Tasks : Settles(v)
  <2>1. CASE pc[w] = "clear" /\ Owns(w) /\ Clears(w) /\ doc' = Cleared(w)
    <3>1. pc'[w] = "dirty"
      BY <1>27, <2>1 DEF Silence, Cancelled, Ends, Writing, TypeInv, TypeOK
    <3> QED BY <1>27, <2>1, <3>1 DEF Silence, Cancelled, Cleared, Clears, Owns, Settles
  <2> QED BY <1>27, <2>1 DEF Silence, Cancelled, Cleared
<1>28. ASSUME NEW w \in Tasks, WriteFails(w)
      PROVE  doc' = doc \/ Marks \/ \E v \in Tasks : Settles(v)
  BY <1>28
  DEF WriteFails
<1>29. ASSUME NEW w \in Tasks, Crash(w)
      PROVE  doc' = doc \/ Marks \/ \E v \in Tasks : Settles(v)
  BY <1>29
  DEF Crash
<1>30. CASE Lapse
  BY <1>30
  DEF Lapse
<1>31. CASE DeleteVectors
  BY <1>31
  DEF DeleteVectors
<1>32. CASE ListVectors
  BY <1>32
  DEF ListVectors
<1>33. CASE ReadEntities
  BY <1>33
  DEF ReadEntities, Known
<1>34. CASE DeleteOrphan
  BY <1>34
  DEF DeleteOrphan
<1>35. CASE UNCHANGED vars
  BY <1>35
  DEF vars
<1> QED BY <1>1, <1>2, <1>3, <1>4, <1>5, <1>6, <1>7, <1>8, <1>9, <1>10, <1>11, <1>12,
    <1>13, <1>14, <1>15, <1>16, <1>17, <1>18, <1>19, <1>20, <1>21, <1>22, <1>23, <1>24,
    <1>25, <1>26, <1>27, <1>28, <1>29, <1>30, <1>31, <1>32, <1>33, <1>34, <1>35
  DEF Next, Call, SyncStep, Sweep

(* A task that outlived its lease leaves no trace only by a mark. *)
LEMMA DangerStays ==
  ASSUME TypeInv, NoDanger', NEW w \in Tasks, NEW s \in States, pc' = [pc EXCEPT ![w] = s],
         lease'.holder = lease.holder \/ lease'.holder = "nobody",
         pc[w] \in Unmarked => s \in Unmarked \/ lease.holder = w
  PROVE  NoDanger
<1>1. pc \in [Tasks -> States] /\ \A v \in Tasks : v # "nobody"
  BY TasksAssumption DEF TypeInv, TypeOK
<1> QED BY <1>1 DEF NoDanger

LEMMA DangerStep ==
  ASSUME TypeInv, [Next]_vars, causes' = {}, Live', NoDanger'
  PROVE  NoDanger \/ Marks
<1>1. ASSUME NEW content \in Contents, Create(content) PROVE NoDanger \/ Marks
  BY <1>1, NoDanger', causes' = {}
  DEF Create, ScheduleVectorSync, Starts, task, NoDanger, Unmarked, Writing, Idle,
    TypeInv, TypeOK
<1>2. ASSUME NEW content \in Contents, Enrich(content) PROVE NoDanger \/ Marks
  BY <1>2, NoDanger', causes' = {}
  DEF Enrich, task, NoDanger, Unmarked, Writing, Idle, TypeInv, TypeOK
<1>3. ASSUME NEW content \in Contents, NEW enabled \in Enabled, Update(content, enabled)
      PROVE  NoDanger \/ Marks
  BY <1>3, NoDanger', causes' = {}
  DEF Update, ScheduleVectorSync, Starts, task, NoDanger, Unmarked, Writing, Idle,
    TypeInv, TypeOK
<1>4. CASE Delete
  BY <1>4, NoDanger', causes' = {}
  DEF Delete, task, NoDanger, Unmarked, Writing, Idle, TypeInv, TypeOK
<1>5. ASSUME NEW c \in Callers, Read(c) PROVE NoDanger \/ Marks
  BY <1>5, NoDanger', causes' = {}
  DEF Read, task, NoDanger, Unmarked, Writing, Idle, TypeInv, TypeOK
<1>6. ASSUME NEW c \in Callers, Enable(c) PROVE NoDanger \/ Marks
  BY <1>6, NoDanger', causes' = {}
  DEF Enable, SaveMarked, ScheduleVectorSync, Starts, task, NoDanger, Unmarked, Writing,
    Idle, TypeInv, TypeOK
<1>7. ASSUME NEW c \in Callers, Disable(c) PROVE NoDanger \/ Marks
  BY <1>7, NoDanger', causes' = {}
  DEF Disable, SaveMarked, ScheduleVectorSync, Starts, task, NoDanger, Unmarked,
    Writing, Idle, TypeInv, TypeOK
<1>8. ASSUME NEW c \in Callers, Refresh(c) PROVE NoDanger \/ Marks
  BY <1>8, NoDanger', causes' = {}
  DEF Refresh, SaveMarked, ScheduleVectorSync, Starts, task, NoDanger, Unmarked,
    Writing, Idle, TypeInv, TypeOK
<1>9. ASSUME NEW c \in Callers, RollBack(c) PROVE NoDanger \/ Marks
  BY <1>9, NoDanger', causes' = {}
  DEF RollBack, SaveUnmarked, task, NoDanger, Unmarked, Writing, Idle, TypeInv, TypeOK
<1>10. ASSUME NEW c \in Callers, RecordError(c) PROVE NoDanger \/ Marks
  BY <1>10, NoDanger', causes' = {}
  DEF RecordError, SaveUnmarked, task, NoDanger, Unmarked, Writing, Idle, TypeInv,
    TypeOK
<1>11. ASSUME NEW w \in Tasks, Reconcile(w) PROVE NoDanger \/ Marks
  BY <1>11, NoDanger', causes' = {}
  DEF Reconcile, Starts, task, NoDanger, Unmarked, Writing, Idle, TypeInv, TypeOK
<1>12. ASSUME NEW w \in Tasks, Repair(w) PROVE NoDanger \/ Marks
  BY <1>12, NoDanger', causes' = {}
  DEF Repair, Starts, task, NoDanger, Unmarked, Writing, Idle, TypeInv, TypeOK
<1>13. ASSUME NEW w \in Tasks, Claim(w) PROVE NoDanger \/ Marks
  BY <1>13, NoDanger', causes' = {}
  DEF Claim, Goto, Forget, task, NoDanger, Unmarked, Writing, Idle, TypeInv, TypeOK
<1>14. ASSUME NEW w \in Tasks, Load(w) PROVE NoDanger \/ Marks
  BY <1>14, NoDanger', causes' = {}
  DEF Load, Goto, Reads, task, NoDanger, Unmarked, Writing, Idle, TypeInv, TypeOK
<1>15. ASSUME NEW w \in Tasks, Stamp(w) PROVE NoDanger \/ Marks
  BY <1>15, Live', StampMarks DEF Stamp, Goto
<1>16. ASSUME NEW w \in Tasks, Reload(w) PROVE NoDanger \/ Marks
  BY <1>16, NoDanger', causes' = {}
  DEF Reload, Goto, Reads, task, NoDanger, Unmarked, Writing, Idle, TypeInv, TypeOK
<1>17. ASSUME NEW w \in Tasks, AssertOwned(w) PROVE NoDanger \/ Marks
  BY <1>17, NoDanger', causes' = {}
  DEF AssertOwned, Goto, Ends, task, NoDanger, Unmarked, Writing, Idle, TypeInv, TypeOK
<1>18. ASSUME NEW w \in Tasks, Write(w) PROVE NoDanger \/ Marks
  BY <1>18, NoDanger', causes' = {}
  DEF Write, Goto, Written, task, NoDanger, Unmarked, Writing, Idle, TypeInv, TypeOK
<1>19. ASSUME NEW w \in Tasks, Insert(w) PROVE NoDanger \/ Marks
  BY <1>19, NoDanger', causes' = {}
  DEF Insert, Goto, Written, task, NoDanger, Unmarked, Writing, Idle, TypeInv, TypeOK
<1>20. ASSUME NEW w \in Tasks, Clear(w) PROVE NoDanger \/ Marks
  <2>1. PICK s \in {"release", "disown"} : pc' = [pc EXCEPT ![w] = s]
             /\ (s = "disown" \/ lease.holder = w)
    BY <1>20 DEF Clear, Owns, Goto, Ends
  <2>2. s \in States /\ (s \in Unmarked \/ lease.holder = w)
    BY <2>1 DEF States, Unmarked
  <2>3. lease' = lease
    BY <1>20 DEF Clear
  <2> QED BY <1>20, <2>1, <2>2, <2>3, NoDanger', DangerStays
<1>21. ASSUME NEW w \in Tasks, Dirty(w) PROVE NoDanger \/ Marks
  BY <1>21, Live', StampMarks DEF Dirty, Goto
<1>22. ASSUME NEW w \in Tasks, Disown(w) PROVE NoDanger \/ Marks
  BY <1>22, Live', StampMarks DEF Disown, Disowned, Goto
<1>23. ASSUME NEW w \in Tasks, Release(w) PROVE NoDanger \/ Marks
  <2>1. PICK s \in {"requeue", Idle} : pc' = [pc EXCEPT ![w] = s]
    BY <1>23 DEF Release, Goto, Forget
  <2>2. s \in States /\ pc[w] \notin Unmarked
    BY <1>23, <2>1 DEF Release, States, Unmarked, Writing
  <2>3. lease'.holder = lease.holder \/ lease'.holder = "nobody"
    BY <1>23 DEF Release
  <2> QED BY <1>23, <2>1, <2>2, <2>3, NoDanger', DangerStays
<1>24. ASSUME NEW w \in Tasks, Requeue(w) PROVE NoDanger \/ Marks
  BY <1>24, NoDanger', causes' = {}
  DEF Requeue, Forget, task, NoDanger, Unmarked, Writing, Idle, TypeInv, TypeOK
<1>25. ASSUME NEW w \in Tasks, LeaseLost(w) PROVE NoDanger \/ Marks
  <2>1. CASE pc[w] \in Writing
    <3>1. pc' = [pc EXCEPT ![w] = pc[w]]
      BY <1>25, <2>1 DEF LeaseLost, Cancelled, Ends, Writing
    <3>2. pc[w] \in States /\ pc[w] \in Unmarked /\ lease' = lease
      BY <1>25, <2>1 DEF LeaseLost, Cancelled, Unmarked, States, Coupled
    <3> QED BY <1>25, <3>1, <3>2, NoDanger', DangerStays
  <2>2. CASE pc[w] = "clear"
    <3>1. pc' = [pc EXCEPT ![w] = "dirty"] /\ lease' = lease
      BY <1>25, <2>2 DEF LeaseLost, Cancelled, Ends, Writing
    <3> QED BY <1>25, <3>1, NoDanger', DangerStays DEF Unmarked, States
  <2>3. CASE pc[w] \notin Writing \cup {"clear"}
    <3>1. PICK s \in {"release", "disown"} : pc' = [pc EXCEPT ![w] = s]
      BY <1>25, <2>3 DEF LeaseLost, Cancelled, Ends
    <3>2. s \in States /\ pc[w] \notin Unmarked /\ lease' = lease
      BY <1>25, <2>3, <3>1 DEF LeaseLost, Cancelled, Unmarked, States, Coupled
    <3> QED BY <1>25, <3>1, <3>2, NoDanger', DangerStays
  <2> QED BY <2>1, <2>2, <2>3
<1>26. ASSUME NEW w \in Tasks, Shutdown(w) PROVE NoDanger \/ Marks
  <2>1. CASE pc[w] \in Writing
    <3>1. pc' = [pc EXCEPT ![w] = pc[w]]
      BY <1>26, <2>1 DEF Shutdown, Cancelled, Ends, Writing
    <3>2. pc[w] \in States /\ pc[w] \in Unmarked /\ lease' = lease
      BY <1>26, <2>1 DEF Shutdown, Cancelled, Unmarked, States, Coupled
    <3> QED BY <1>26, <3>1, <3>2, NoDanger', DangerStays
  <2>2. CASE pc[w] = "clear"
    <3>1. pc' = [pc EXCEPT ![w] = "dirty"] /\ lease' = lease
      BY <1>26, <2>2 DEF Shutdown, Cancelled, Ends, Writing
    <3> QED BY <1>26, <3>1, NoDanger', DangerStays DEF Unmarked, States
  <2>3. CASE pc[w] \notin Writing \cup {"clear"}
    <3>1. PICK s \in {"release", "disown"} : pc' = [pc EXCEPT ![w] = s]
      BY <1>26, <2>3 DEF Shutdown, Cancelled, Ends
    <3>2. s \in States /\ pc[w] \notin Unmarked /\ lease' = lease
      BY <1>26, <2>3, <3>1 DEF Shutdown, Cancelled, Unmarked, States, Coupled
    <3> QED BY <1>26, <3>1, <3>2, NoDanger', DangerStays
  <2> QED BY <2>1, <2>2, <2>3
<1>27. ASSUME NEW w \in Tasks, Silence(w) PROVE NoDanger \/ Marks
  <2>1. CASE pc[w] \in Writing
    <3>1. pc' = [pc EXCEPT ![w] = pc[w]]
      BY <1>27, <2>1 DEF Silence, Cancelled, Ends, Writing
    <3>2. pc[w] \in States /\ pc[w] \in Unmarked /\ lease' = lease
      BY <1>27, <2>1 DEF Silence, Cancelled, Unmarked, States, Coupled
    <3> QED BY <1>27, <3>1, <3>2, NoDanger', DangerStays
  <2>2. CASE pc[w] = "clear"
    <3>1. pc' = [pc EXCEPT ![w] = "dirty"] /\ lease' = lease
      BY <1>27, <2>2 DEF Silence, Cancelled, Ends, Writing
    <3> QED BY <1>27, <3>1, NoDanger', DangerStays DEF Unmarked, States
  <2>3. CASE pc[w] \notin Writing \cup {"clear"}
    <3>1. PICK s \in {"release", "disown"} : pc' = [pc EXCEPT ![w] = s]
      BY <1>27, <2>3 DEF Silence, Cancelled, Ends
    <3>2. s \in States /\ pc[w] \notin Unmarked /\ lease' = lease
      BY <1>27, <2>3, <3>1 DEF Silence, Cancelled, Unmarked, States, Coupled
    <3> QED BY <1>27, <3>1, <3>2, NoDanger', DangerStays
  <2> QED BY <2>1, <2>2, <2>3
<1>28. ASSUME NEW w \in Tasks, WriteFails(w) PROVE NoDanger \/ Marks
  BY <1>28, NoDanger', causes' = {}
  DEF WriteFails, Ends, Goto, task, NoDanger, Unmarked, Writing, Idle, TypeInv, TypeOK
<1>29. ASSUME NEW w \in Tasks, Crash(w) PROVE NoDanger \/ Marks
  BY <1>29, NoDanger', causes' = {}
  DEF Crash, Forget, task, NoDanger, Unmarked, Writing, Idle, TypeInv, TypeOK
<1>30. CASE Lapse
  BY <1>30, NoDanger', causes' = {}
  DEF Lapse, task, NoDanger, Unmarked, Writing, Idle, TypeInv, TypeOK
<1>31. CASE DeleteVectors
  BY <1>31, NoDanger', causes' = {}
  DEF DeleteVectors, task, NoDanger, Unmarked, Writing, Idle, TypeInv, TypeOK
<1>32. CASE ListVectors
  BY <1>32, NoDanger', causes' = {}
  DEF ListVectors, task, NoDanger, Unmarked, Writing, Idle, TypeInv, TypeOK
<1>33. CASE ReadEntities
  BY <1>33, NoDanger', causes' = {}
  DEF ReadEntities, Known, task, NoDanger, Unmarked, Writing, Idle, TypeInv, TypeOK
<1>34. CASE DeleteOrphan
  BY <1>34, NoDanger', causes' = {}
  DEF DeleteOrphan, task, NoDanger, Unmarked, Writing, Idle, TypeInv, TypeOK
<1>35. CASE UNCHANGED vars
  BY <1>35, NoDanger', causes' = {}
  DEF vars, task, NoDanger, Unmarked, Writing, Idle, TypeInv, TypeOK
<1> QED BY <1>1, <1>2, <1>3, <1>4, <1>5, <1>6, <1>7, <1>8, <1>9, <1>10, <1>11, <1>12,
    <1>13, <1>14, <1>15, <1>16, <1>17, <1>18, <1>19, <1>20, <1>21, <1>22, <1>23, <1>24,
    <1>25, <1>26, <1>27, <1>28, <1>29, <1>30, <1>31, <1>32, <1>33, <1>34, <1>35
  DEF Next, Call, SyncStep, Sweep

(* The vectors change by the write of a task, or go with the entity. *)
Writes(w) ==
  /\ pc[w] \in Writing
  /\ UNCHANGED <<doc, lease, seen, plan>>
  /\ \/ /\ pc[w] = "write" /\ pc'[w] = "insert"
        /\ vectors' = NoVectors
     \/ /\ pc[w] = "write" /\ pc'[w] \in {"clear", "dirty"} /\ vectors # NoVectors
        /\ ~Full(w)
        /\ vectors' = [vectors EXCEPT !.enabled = seen[w].enabled]
     \/ /\ pc[w] = "insert" /\ pc'[w] \in {"clear", "dirty"}
        /\ vectors' = [content |-> IF vectors = NoVectors THEN seen[w].content ELSE "mixed",
                       enabled |-> seen[w].enabled]

VectorsGo == vectors' = NoVectors /\ (deletions > 0 \/ sweep = "doomed")

LEMMA VectorsStep ==
  ASSUME TypeInv, [Next]_vars
  PROVE  vectors' = vectors \/ VectorsGo \/ \E w \in Tasks : Writes(w)
<1>1. ASSUME NEW content \in Contents, Create(content)
      PROVE  vectors' = vectors \/ VectorsGo \/ \E v \in Tasks : Writes(v)
  BY <1>1
  DEF Create
<1>2. ASSUME NEW content \in Contents, Enrich(content)
      PROVE  vectors' = vectors \/ VectorsGo \/ \E v \in Tasks : Writes(v)
  BY <1>2
  DEF Enrich
<1>3. ASSUME NEW content \in Contents, NEW enabled \in Enabled, Update(content, enabled)
      PROVE  vectors' = vectors \/ VectorsGo \/ \E v \in Tasks : Writes(v)
  BY <1>3
  DEF Update
<1>4. CASE Delete
  BY <1>4
  DEF Delete
<1>5. ASSUME NEW c \in Callers, Read(c)
      PROVE  vectors' = vectors \/ VectorsGo \/ \E v \in Tasks : Writes(v)
  BY <1>5
  DEF Read
<1>6. ASSUME NEW c \in Callers, Enable(c)
      PROVE  vectors' = vectors \/ VectorsGo \/ \E v \in Tasks : Writes(v)
  BY <1>6
  DEF Enable, SaveMarked
<1>7. ASSUME NEW c \in Callers, Disable(c)
      PROVE  vectors' = vectors \/ VectorsGo \/ \E v \in Tasks : Writes(v)
  BY <1>7
  DEF Disable, SaveMarked
<1>8. ASSUME NEW c \in Callers, Refresh(c)
      PROVE  vectors' = vectors \/ VectorsGo \/ \E v \in Tasks : Writes(v)
  BY <1>8
  DEF Refresh, SaveMarked
<1>9. ASSUME NEW c \in Callers, RollBack(c)
      PROVE  vectors' = vectors \/ VectorsGo \/ \E v \in Tasks : Writes(v)
  BY <1>9
  DEF RollBack, SaveUnmarked
<1>10. ASSUME NEW c \in Callers, RecordError(c)
      PROVE  vectors' = vectors \/ VectorsGo \/ \E v \in Tasks : Writes(v)
  BY <1>10
  DEF RecordError, SaveUnmarked
<1>11. ASSUME NEW w \in Tasks, Reconcile(w)
      PROVE  vectors' = vectors \/ VectorsGo \/ \E v \in Tasks : Writes(v)
  BY <1>11
  DEF Reconcile
<1>12. ASSUME NEW w \in Tasks, Repair(w)
      PROVE  vectors' = vectors \/ VectorsGo \/ \E v \in Tasks : Writes(v)
  BY <1>12
  DEF Repair
<1>13. ASSUME NEW w \in Tasks, Claim(w)
      PROVE  vectors' = vectors \/ VectorsGo \/ \E v \in Tasks : Writes(v)
  BY <1>13
  DEF Claim
<1>14. ASSUME NEW w \in Tasks, Load(w)
      PROVE  vectors' = vectors \/ VectorsGo \/ \E v \in Tasks : Writes(v)
  BY <1>14
  DEF Load
<1>15. ASSUME NEW w \in Tasks, Stamp(w)
      PROVE  vectors' = vectors \/ VectorsGo \/ \E v \in Tasks : Writes(v)
  BY <1>15
  DEF Stamp
<1>16. ASSUME NEW w \in Tasks, Reload(w)
      PROVE  vectors' = vectors \/ VectorsGo \/ \E v \in Tasks : Writes(v)
  BY <1>16
  DEF Reload
<1>17. ASSUME NEW w \in Tasks, AssertOwned(w)
      PROVE  vectors' = vectors \/ VectorsGo \/ \E v \in Tasks : Writes(v)
  BY <1>17
  DEF AssertOwned
<1>18. ASSUME NEW w \in Tasks, Write(w)
      PROVE  vectors' = vectors \/ VectorsGo \/ \E v \in Tasks : Writes(v)
  <2>1. vectors' = vectors \/ Writes(w)
    BY <1>18 DEF Write, Written, Goto, Writes, Writing, TypeInv, TypeOK
  <2> QED BY <1>18, <2>1
<1>19. ASSUME NEW w \in Tasks, Insert(w)
      PROVE  vectors' = vectors \/ VectorsGo \/ \E v \in Tasks : Writes(v)
  <2>1. Writes(w)
    BY <1>19 DEF Insert, Written, Goto, Writes, Writing, TypeInv, TypeOK
  <2> QED BY <1>19, <2>1
<1>20. ASSUME NEW w \in Tasks, Clear(w)
      PROVE  vectors' = vectors \/ VectorsGo \/ \E v \in Tasks : Writes(v)
  BY <1>20
  DEF Clear
<1>21. ASSUME NEW w \in Tasks, Dirty(w)
      PROVE  vectors' = vectors \/ VectorsGo \/ \E v \in Tasks : Writes(v)
  BY <1>21
  DEF Dirty
<1>22. ASSUME NEW w \in Tasks, Disown(w)
      PROVE  vectors' = vectors \/ VectorsGo \/ \E v \in Tasks : Writes(v)
  BY <1>22
  DEF Disown
<1>23. ASSUME NEW w \in Tasks, Release(w)
      PROVE  vectors' = vectors \/ VectorsGo \/ \E v \in Tasks : Writes(v)
  BY <1>23
  DEF Release
<1>24. ASSUME NEW w \in Tasks, Requeue(w)
      PROVE  vectors' = vectors \/ VectorsGo \/ \E v \in Tasks : Writes(v)
  BY <1>24
  DEF Requeue
<1>25. ASSUME NEW w \in Tasks, LeaseLost(w)
      PROVE  vectors' = vectors \/ VectorsGo \/ \E v \in Tasks : Writes(v)
  BY <1>25 DEF LeaseLost, Cancelled
<1>26. ASSUME NEW w \in Tasks, Shutdown(w)
      PROVE  vectors' = vectors \/ VectorsGo \/ \E v \in Tasks : Writes(v)
  BY <1>26 DEF Shutdown, Cancelled
<1>27. ASSUME NEW w \in Tasks, Silence(w)
      PROVE  vectors' = vectors \/ VectorsGo \/ \E v \in Tasks : Writes(v)
  BY <1>27 DEF Silence, Cancelled
<1>28. ASSUME NEW w \in Tasks, WriteFails(w)
      PROVE  vectors' = vectors \/ VectorsGo \/ \E v \in Tasks : Writes(v)
  BY <1>28
  DEF WriteFails
<1>29. ASSUME NEW w \in Tasks, Crash(w)
      PROVE  vectors' = vectors \/ VectorsGo \/ \E v \in Tasks : Writes(v)
  BY <1>29
  DEF Crash
<1>30. CASE Lapse
  BY <1>30
  DEF Lapse
<1>31. CASE DeleteVectors
  BY <1>31 DEF DeleteVectors, VectorsGo
<1>32. CASE ListVectors
  BY <1>32
  DEF ListVectors
<1>33. CASE ReadEntities
  BY <1>33
  DEF ReadEntities, Known
<1>34. CASE DeleteOrphan
  BY <1>34 DEF DeleteOrphan, VectorsGo
<1>35. CASE UNCHANGED vars
  BY <1>35
  DEF vars
<1> QED BY <1>1, <1>2, <1>3, <1>4, <1>5, <1>6, <1>7, <1>8, <1>9, <1>10, <1>11, <1>12,
    <1>13, <1>14, <1>15, <1>16, <1>17, <1>18, <1>19, <1>20, <1>21, <1>22, <1>23, <1>24,
    <1>25, <1>26, <1>27, <1>28, <1>29, <1>30, <1>31, <1>32, <1>33, <1>34, <1>35
  DEF Next, Call, SyncStep, Sweep

LEMMA SeenStep ==
  ASSUME TypeInv, [Next]_vars, NEW v \in Tasks
  PROVE  seen'[v] = seen[v] \/ seen'[v] = NoDoc \/ (seen'[v] = doc /\ doc' = doc)
<1>1. ASSUME NEW content \in Contents, Create(content)
      PROVE  seen'[v] = seen[v] \/ seen'[v] = NoDoc \/ (seen'[v] = doc /\ doc' = doc)
  BY <1>1
  DEF Create, ScheduleVectorSync, Starts, task, TypeInv, TypeOK
<1>2. ASSUME NEW content \in Contents, Enrich(content)
      PROVE  seen'[v] = seen[v] \/ seen'[v] = NoDoc \/ (seen'[v] = doc /\ doc' = doc)
  BY <1>2
  DEF Enrich, task, TypeInv, TypeOK
<1>3. ASSUME NEW content \in Contents, NEW enabled \in Enabled, Update(content, enabled)
      PROVE  seen'[v] = seen[v] \/ seen'[v] = NoDoc \/ (seen'[v] = doc /\ doc' = doc)
  BY <1>3
  DEF Update, ScheduleVectorSync, Starts, task, TypeInv, TypeOK
<1>4. CASE Delete
  BY <1>4
  DEF Delete, task, TypeInv, TypeOK
<1>5. ASSUME NEW c \in Callers, Read(c)
      PROVE  seen'[v] = seen[v] \/ seen'[v] = NoDoc \/ (seen'[v] = doc /\ doc' = doc)
  BY <1>5
  DEF Read, task, TypeInv, TypeOK
<1>6. ASSUME NEW c \in Callers, Enable(c)
      PROVE  seen'[v] = seen[v] \/ seen'[v] = NoDoc \/ (seen'[v] = doc /\ doc' = doc)
  BY <1>6
  DEF Enable, SaveMarked, ScheduleVectorSync, Starts, task, TypeInv, TypeOK
<1>7. ASSUME NEW c \in Callers, Disable(c)
      PROVE  seen'[v] = seen[v] \/ seen'[v] = NoDoc \/ (seen'[v] = doc /\ doc' = doc)
  BY <1>7
  DEF Disable, SaveMarked, ScheduleVectorSync, Starts, task, TypeInv, TypeOK
<1>8. ASSUME NEW c \in Callers, Refresh(c)
      PROVE  seen'[v] = seen[v] \/ seen'[v] = NoDoc \/ (seen'[v] = doc /\ doc' = doc)
  BY <1>8
  DEF Refresh, SaveMarked, ScheduleVectorSync, Starts, task, TypeInv, TypeOK
<1>9. ASSUME NEW c \in Callers, RollBack(c)
      PROVE  seen'[v] = seen[v] \/ seen'[v] = NoDoc \/ (seen'[v] = doc /\ doc' = doc)
  BY <1>9
  DEF RollBack, SaveUnmarked, task, TypeInv, TypeOK
<1>10. ASSUME NEW c \in Callers, RecordError(c)
      PROVE  seen'[v] = seen[v] \/ seen'[v] = NoDoc \/ (seen'[v] = doc /\ doc' = doc)
  BY <1>10
  DEF RecordError, SaveUnmarked, task, TypeInv, TypeOK
<1>11. ASSUME NEW w \in Tasks, Reconcile(w)
      PROVE  seen'[v] = seen[v] \/ seen'[v] = NoDoc \/ (seen'[v] = doc /\ doc' = doc)
  BY <1>11
  DEF Reconcile, Starts, task, TypeInv, TypeOK
<1>12. ASSUME NEW w \in Tasks, Repair(w)
      PROVE  seen'[v] = seen[v] \/ seen'[v] = NoDoc \/ (seen'[v] = doc /\ doc' = doc)
  BY <1>12
  DEF Repair, Starts, task, TypeInv, TypeOK
<1>13. ASSUME NEW w \in Tasks, Claim(w)
      PROVE  seen'[v] = seen[v] \/ seen'[v] = NoDoc \/ (seen'[v] = doc /\ doc' = doc)
  BY <1>13
  DEF Claim, Goto, Forget, task, TypeInv, TypeOK
<1>14. ASSUME NEW w \in Tasks, Load(w)
      PROVE  seen'[v] = seen[v] \/ seen'[v] = NoDoc \/ (seen'[v] = doc /\ doc' = doc)
  BY <1>14
  DEF Load, Goto, Reads, task, TypeInv, TypeOK
<1>15. ASSUME NEW w \in Tasks, Stamp(w)
      PROVE  seen'[v] = seen[v] \/ seen'[v] = NoDoc \/ (seen'[v] = doc /\ doc' = doc)
  BY <1>15
  DEF Stamp, Goto, task, TypeInv, TypeOK
<1>16. ASSUME NEW w \in Tasks, Reload(w)
      PROVE  seen'[v] = seen[v] \/ seen'[v] = NoDoc \/ (seen'[v] = doc /\ doc' = doc)
  BY <1>16
  DEF Reload, Goto, Reads, task, TypeInv, TypeOK
<1>17. ASSUME NEW w \in Tasks, AssertOwned(w)
      PROVE  seen'[v] = seen[v] \/ seen'[v] = NoDoc \/ (seen'[v] = doc /\ doc' = doc)
  BY <1>17
  DEF AssertOwned, Goto, Ends, task, TypeInv, TypeOK
<1>18. ASSUME NEW w \in Tasks, Write(w)
      PROVE  seen'[v] = seen[v] \/ seen'[v] = NoDoc \/ (seen'[v] = doc /\ doc' = doc)
  BY <1>18
  DEF Write, Goto, Written, task, TypeInv, TypeOK
<1>19. ASSUME NEW w \in Tasks, Insert(w)
      PROVE  seen'[v] = seen[v] \/ seen'[v] = NoDoc \/ (seen'[v] = doc /\ doc' = doc)
  BY <1>19
  DEF Insert, Goto, Written, task, TypeInv, TypeOK
<1>20. ASSUME NEW w \in Tasks, Clear(w)
      PROVE  seen'[v] = seen[v] \/ seen'[v] = NoDoc \/ (seen'[v] = doc /\ doc' = doc)
  BY <1>20
  DEF Clear, Goto, Ends, task, TypeInv, TypeOK
<1>21. ASSUME NEW w \in Tasks, Dirty(w)
      PROVE  seen'[v] = seen[v] \/ seen'[v] = NoDoc \/ (seen'[v] = doc /\ doc' = doc)
  BY <1>21
  DEF Dirty, Goto, task, TypeInv, TypeOK
<1>22. ASSUME NEW w \in Tasks, Disown(w)
      PROVE  seen'[v] = seen[v] \/ seen'[v] = NoDoc \/ (seen'[v] = doc /\ doc' = doc)
  BY <1>22
  DEF Disown, Goto, task, TypeInv, TypeOK
<1>23. ASSUME NEW w \in Tasks, Release(w)
      PROVE  seen'[v] = seen[v] \/ seen'[v] = NoDoc \/ (seen'[v] = doc /\ doc' = doc)
  BY <1>23
  DEF Release, Goto, Forget, task, TypeInv, TypeOK
<1>24. ASSUME NEW w \in Tasks, Requeue(w)
      PROVE  seen'[v] = seen[v] \/ seen'[v] = NoDoc \/ (seen'[v] = doc /\ doc' = doc)
  BY <1>24
  DEF Requeue, Forget, task, TypeInv, TypeOK
<1>25. ASSUME NEW w \in Tasks, LeaseLost(w)
      PROVE  seen'[v] = seen[v] \/ seen'[v] = NoDoc \/ (seen'[v] = doc /\ doc' = doc)
  BY <1>25
  DEF LeaseLost, Cancelled, Ends, task, TypeInv, TypeOK
<1>26. ASSUME NEW w \in Tasks, Shutdown(w)
      PROVE  seen'[v] = seen[v] \/ seen'[v] = NoDoc \/ (seen'[v] = doc /\ doc' = doc)
  BY <1>26
  DEF Shutdown, Cancelled, Ends, task, TypeInv, TypeOK
<1>27. ASSUME NEW w \in Tasks, Silence(w)
      PROVE  seen'[v] = seen[v] \/ seen'[v] = NoDoc \/ (seen'[v] = doc /\ doc' = doc)
  BY <1>27
  DEF Silence, Cancelled, Ends, task, TypeInv, TypeOK
<1>28. ASSUME NEW w \in Tasks, WriteFails(w)
      PROVE  seen'[v] = seen[v] \/ seen'[v] = NoDoc \/ (seen'[v] = doc /\ doc' = doc)
  BY <1>28
  DEF WriteFails, Ends, Goto, task, TypeInv, TypeOK
<1>29. ASSUME NEW w \in Tasks, Crash(w)
      PROVE  seen'[v] = seen[v] \/ seen'[v] = NoDoc \/ (seen'[v] = doc /\ doc' = doc)
  BY <1>29
  DEF Crash, Forget, task, TypeInv, TypeOK
<1>30. CASE Lapse
  BY <1>30
  DEF Lapse, task, TypeInv, TypeOK
<1>31. CASE DeleteVectors
  BY <1>31
  DEF DeleteVectors, task, TypeInv, TypeOK
<1>32. CASE ListVectors
  BY <1>32
  DEF ListVectors, task, TypeInv, TypeOK
<1>33. CASE ReadEntities
  BY <1>33
  DEF ReadEntities, Known, task, TypeInv, TypeOK
<1>34. CASE DeleteOrphan
  BY <1>34
  DEF DeleteOrphan, task, TypeInv, TypeOK
<1>35. CASE UNCHANGED vars
  BY <1>35
  DEF vars, task, TypeInv, TypeOK
<1> QED BY <1>1, <1>2, <1>3, <1>4, <1>5, <1>6, <1>7, <1>8, <1>9, <1>10, <1>11, <1>12,
    <1>13, <1>14, <1>15, <1>16, <1>17, <1>18, <1>19, <1>20, <1>21, <1>22, <1>23, <1>24,
    <1>25, <1>26, <1>27, <1>28, <1>29, <1>30, <1>31, <1>32, <1>33, <1>34, <1>35
  DEF Next, Call, SyncStep, Sweep

(* A task that holds the lease goes on step by step. *)
Advances(v) ==
  \/ pc[v] \in Held /\ pc'[v] = pc[v] /\ seen'[v] = seen[v]
  \/ pc'[v] = "reread" /\ Marks
  \/ pc'[v] = "assert" /\ seen'[v] = doc /\ doc' = doc /\ (pc[v] = "reread" \/ Pending(doc))
  \/ pc[v] = "assert" /\ pc'[v] = "write" /\ seen'[v] = seen[v]
  \/ pc'[v] \in {"insert", "clear"} /\ Writes(v)
  \/ /\ pc[v] = "write" /\ pc'[v] = "clear" /\ seen'[v] = seen[v]
     /\ vectors.content # seen[v].content
     /\ ~(Live /\ doc.content = seen[v].content)

LEMMA HolderStep ==
  ASSUME TypeInv, [Next]_vars, Live', NEW v \in Tasks, lease'.holder = v, pc'[v] \in Held
  PROVE  lease.holder = v /\ Advances(v)
<1>1. ASSUME NEW content \in Contents, Create(content) PROVE lease.holder = v /\ Advances(v)
  BY <1>1, lease'.holder = v, pc'[v] \in Held
  DEF Create, ScheduleVectorSync, Starts, task, Advances, Held, HasRead, Idle, TypeInv,
    TypeOK
<1>2. ASSUME NEW content \in Contents, Enrich(content) PROVE lease.holder = v /\ Advances(v)
  BY <1>2, lease'.holder = v, pc'[v] \in Held
  DEF Enrich, task, Advances, Held, HasRead, Idle, TypeInv, TypeOK
<1>3. ASSUME NEW content \in Contents, NEW enabled \in Enabled, Update(content, enabled)
      PROVE  lease.holder = v /\ Advances(v)
  BY <1>3, lease'.holder = v, pc'[v] \in Held
  DEF Update, ScheduleVectorSync, Starts, task, Advances, Held, HasRead, Idle, TypeInv,
    TypeOK
<1>4. CASE Delete
  BY <1>4, lease'.holder = v, pc'[v] \in Held
  DEF Delete, task, Advances, Held, HasRead, Idle, TypeInv, TypeOK
<1>5. ASSUME NEW c \in Callers, Read(c) PROVE lease.holder = v /\ Advances(v)
  BY <1>5, lease'.holder = v, pc'[v] \in Held
  DEF Read, task, Advances, Held, HasRead, Idle, TypeInv, TypeOK
<1>6. ASSUME NEW c \in Callers, Enable(c) PROVE lease.holder = v /\ Advances(v)
  BY <1>6, lease'.holder = v, pc'[v] \in Held
  DEF Enable, SaveMarked, ScheduleVectorSync, Starts, task, Advances, Held, HasRead,
    Idle, TypeInv, TypeOK
<1>7. ASSUME NEW c \in Callers, Disable(c) PROVE lease.holder = v /\ Advances(v)
  BY <1>7, lease'.holder = v, pc'[v] \in Held
  DEF Disable, SaveMarked, ScheduleVectorSync, Starts, task, Advances, Held, HasRead,
    Idle, TypeInv, TypeOK
<1>8. ASSUME NEW c \in Callers, Refresh(c) PROVE lease.holder = v /\ Advances(v)
  BY <1>8, lease'.holder = v, pc'[v] \in Held
  DEF Refresh, SaveMarked, ScheduleVectorSync, Starts, task, Advances, Held, HasRead,
    Idle, TypeInv, TypeOK
<1>9. ASSUME NEW c \in Callers, RollBack(c) PROVE lease.holder = v /\ Advances(v)
  BY <1>9, lease'.holder = v, pc'[v] \in Held
  DEF RollBack, SaveUnmarked, task, Advances, Held, HasRead, Idle, TypeInv, TypeOK
<1>10. ASSUME NEW c \in Callers, RecordError(c) PROVE lease.holder = v /\ Advances(v)
  BY <1>10, lease'.holder = v, pc'[v] \in Held
  DEF RecordError, SaveUnmarked, task, Advances, Held, HasRead, Idle, TypeInv, TypeOK
<1>11. ASSUME NEW w \in Tasks, Reconcile(w) PROVE lease.holder = v /\ Advances(v)
  BY <1>11, lease'.holder = v, pc'[v] \in Held
  DEF Reconcile, Starts, task, Advances, Held, HasRead, Idle, TypeInv, TypeOK
<1>12. ASSUME NEW w \in Tasks, Repair(w) PROVE lease.holder = v /\ Advances(v)
  BY <1>12, lease'.holder = v, pc'[v] \in Held
  DEF Repair, Starts, task, Advances, Held, HasRead, Idle, TypeInv, TypeOK
<1>13. ASSUME NEW w \in Tasks, Claim(w) PROVE lease.holder = v /\ Advances(v)
  BY <1>13, lease'.holder = v, pc'[v] \in Held
  DEF Claim, Goto, Forget, task, Advances, Held, HasRead, Idle, TypeInv, TypeOK
<1>14. ASSUME NEW w \in Tasks, Load(w) PROVE lease.holder = v /\ Advances(v)
  <2>1. CASE v = w
    <3>1. Live /\ Pending(doc) /\ Reads(w)
      BY <1>14, <2>1, pc'[v] \in Held DEF Load, Goto, Held, HasRead, TypeInv, TypeOK
    <3> QED BY <1>14, <2>1, <3>1, lease'.holder = v DEF Load, Reads, Advances, TypeInv, TypeOK
  <2>2. CASE v # w
    BY <1>14, <2>2, lease'.holder = v, pc'[v] \in Held
    DEF Load, Goto, Reads, Advances, TypeInv, TypeOK
  <2> QED BY <2>1, <2>2
<1>15. ASSUME NEW w \in Tasks, Stamp(w) PROVE lease.holder = v /\ Advances(v)
  <2>1. CASE v = w
    <3>1. pc'[v] = "reread" /\ Marks /\ lease' = lease
      BY <1>15, <2>1, Live', StampMarks DEF Stamp, Goto, TypeInv, TypeOK
    <3> QED BY <3>1, lease'.holder = v DEF Advances
  <2>2. CASE v # w
    BY <1>15, <2>2, lease'.holder = v, pc'[v] \in Held
    DEF Stamp, Goto, Advances, TypeInv, TypeOK
  <2> QED BY <2>1, <2>2
<1>16. ASSUME NEW w \in Tasks, Reload(w) PROVE lease.holder = v /\ Advances(v)
  BY <1>16, lease'.holder = v, pc'[v] \in Held
  DEF Reload, Goto, Reads, task, Advances, Held, HasRead, Idle, TypeInv, TypeOK
<1>17. ASSUME NEW w \in Tasks, AssertOwned(w) PROVE lease.holder = v /\ Advances(v)
  BY <1>17, lease'.holder = v, pc'[v] \in Held
  DEF AssertOwned, Goto, Ends, task, Advances, Held, HasRead, Idle, TypeInv, TypeOK
<1>18. ASSUME NEW w \in Tasks, Write(w) PROVE lease.holder = v /\ Advances(v)
  <2>1. CASE v = w
    <3>1. pc[v] = "write" /\ lease.holder = v /\ pc'[v] # "dirty"
      BY <1>18, <2>1, lease'.holder = v, pc'[v] \in Held DEF Write, Held, HasRead
    <3>2. CASE Writes(v)
      BY <3>1, <3>2 DEF Writes, Advances
    <3>3. CASE ~Writes(v)
      <4>1. /\ vectors.content # seen[v].content /\ ~(Live /\ doc.content = seen[v].content)
            /\ Written(v)
        BY <1>18, <2>1, <3>1, <3>3
        DEF Write, Writes, Written, Writing, Goto, TypeInv, TypeOK
      <4>2. seen'[v] = seen[v] /\ pc'[v] = "clear"
        BY <3>1, <4>1 DEF Written, Goto, TypeInv, TypeOK
      <4> QED BY <3>1, <4>1, <4>2 DEF Advances
    <3> QED BY <3>2, <3>3
  <2>2. CASE v # w
    BY <1>18, <2>2, lease'.holder = v, pc'[v] \in Held
    DEF Write, Written, Goto, Advances, TypeInv, TypeOK
  <2> QED BY <2>1, <2>2
<1>19. ASSUME NEW w \in Tasks, Insert(w) PROVE lease.holder = v /\ Advances(v)
  <2>1. CASE v = w
    <3>1. Writes(v) /\ lease.holder = v /\ pc'[v] = "clear"
      BY <1>19, <2>1, lease'.holder = v, pc'[v] \in Held
      DEF Insert, Writes, Written, Writing, Goto, Held, HasRead, TypeInv, TypeOK
    <3> QED BY <3>1 DEF Advances
  <2>2. CASE v # w
    BY <1>19, <2>2, lease'.holder = v, pc'[v] \in Held
    DEF Insert, Written, Goto, Advances, TypeInv, TypeOK
  <2> QED BY <2>1, <2>2
<1>20. ASSUME NEW w \in Tasks, Clear(w) PROVE lease.holder = v /\ Advances(v)
  BY <1>20, lease'.holder = v, pc'[v] \in Held
  DEF Clear, Goto, Ends, task, Advances, Held, HasRead, Idle, TypeInv, TypeOK
<1>21. ASSUME NEW w \in Tasks, Dirty(w) PROVE lease.holder = v /\ Advances(v)
  BY <1>21, lease'.holder = v, pc'[v] \in Held
  DEF Dirty, Goto, task, Advances, Held, HasRead, Idle, TypeInv, TypeOK
<1>22. ASSUME NEW w \in Tasks, Disown(w) PROVE lease.holder = v /\ Advances(v)
  BY <1>22, lease'.holder = v, pc'[v] \in Held
  DEF Disown, Goto, task, Advances, Held, HasRead, Idle, TypeInv, TypeOK
<1>23. ASSUME NEW w \in Tasks, Release(w) PROVE lease.holder = v /\ Advances(v)
  <2>1. pc'[w] \in {"requeue", Idle} /\ lease'.holder \in {lease.holder, "nobody"}
    BY <1>23 DEF Release, Goto, Forget, TypeInv, TypeOK
  <2>2. v # w /\ v # "nobody"
    BY <2>1, pc'[v] \in Held, TasksAssumption DEF Held, HasRead, Idle
  <2>3. pc'[v] = pc[v] /\ seen'[v] = seen[v]
    BY <1>23, <2>2 DEF Release, Goto, Forget, TypeInv, TypeOK
  <2> QED BY <2>1, <2>2, <2>3, lease'.holder = v, pc'[v] \in Held DEF Advances
<1>24. ASSUME NEW w \in Tasks, Requeue(w) PROVE lease.holder = v /\ Advances(v)
  BY <1>24, lease'.holder = v, pc'[v] \in Held
  DEF Requeue, Forget, task, Advances, Held, HasRead, Idle, TypeInv, TypeOK
<1>25. ASSUME NEW w \in Tasks, LeaseLost(w) PROVE lease.holder = v /\ Advances(v)
  BY <1>25, lease'.holder = v, pc'[v] \in Held
  DEF LeaseLost, Cancelled, Ends, task, Advances, Held, HasRead, Idle, TypeInv, TypeOK
<1>26. ASSUME NEW w \in Tasks, Shutdown(w) PROVE lease.holder = v /\ Advances(v)
  BY <1>26, lease'.holder = v, pc'[v] \in Held
  DEF Shutdown, Cancelled, Ends, task, Advances, Held, HasRead, Idle, TypeInv, TypeOK
<1>27. ASSUME NEW w \in Tasks, Silence(w) PROVE lease.holder = v /\ Advances(v)
  BY <1>27, lease'.holder = v, pc'[v] \in Held
  DEF Silence, Cancelled, Ends, task, Advances, Held, HasRead, Idle, TypeInv, TypeOK
<1>28. ASSUME NEW w \in Tasks, WriteFails(w) PROVE lease.holder = v /\ Advances(v)
  BY <1>28, lease'.holder = v, pc'[v] \in Held
  DEF WriteFails, Ends, Goto, task, Advances, Held, HasRead, Idle, TypeInv, TypeOK
<1>29. ASSUME NEW w \in Tasks, Crash(w) PROVE lease.holder = v /\ Advances(v)
  BY <1>29, lease'.holder = v, pc'[v] \in Held
  DEF Crash, Forget, task, Advances, Held, HasRead, Idle, TypeInv, TypeOK
<1>30. CASE Lapse
  BY <1>30, lease'.holder = v, pc'[v] \in Held
  DEF Lapse, task, Advances, Held, HasRead, Idle, TypeInv, TypeOK
<1>31. CASE DeleteVectors
  BY <1>31, lease'.holder = v, pc'[v] \in Held
  DEF DeleteVectors, task, Advances, Held, HasRead, Idle, TypeInv, TypeOK
<1>32. CASE ListVectors
  BY <1>32, lease'.holder = v, pc'[v] \in Held
  DEF ListVectors, task, Advances, Held, HasRead, Idle, TypeInv, TypeOK
<1>33. CASE ReadEntities
  BY <1>33, lease'.holder = v, pc'[v] \in Held
  DEF ReadEntities, Known, task, Advances, Held, HasRead, Idle, TypeInv, TypeOK
<1>34. CASE DeleteOrphan
  BY <1>34, lease'.holder = v, pc'[v] \in Held
  DEF DeleteOrphan, task, Advances, Held, HasRead, Idle, TypeInv, TypeOK
<1>35. CASE UNCHANGED vars
  BY <1>35, lease'.holder = v, pc'[v] \in Held
  DEF vars, task, Advances, Held, HasRead, Idle, TypeInv, TypeOK
<1> QED BY <1>1, <1>2, <1>3, <1>4, <1>5, <1>6, <1>7, <1>8, <1>9, <1>10, <1>11, <1>12,
    <1>13, <1>14, <1>15, <1>16, <1>17, <1>18, <1>19, <1>20, <1>21, <1>22, <1>23, <1>24,
    <1>25, <1>26, <1>27, <1>28, <1>29, <1>30, <1>31, <1>32, <1>33, <1>34, <1>35
  DEF Next, Call, SyncStep, Sweep

(* A call that plans a patch changed nothing but the metadata. *)
Planned(v) ==
  /\ pc[v] = Idle /\ pc' = [pc EXCEPT ![v] = "claim"]
  /\ UNCHANGED <<lease, vectors>>
  /\ ~plan'[v].full => Live /\ ~Pending(doc) /\ doc'.content = doc.content

LEMMA PlanStep ==
  ASSUME TypeInv, [Next]_vars, causes' = {}, NEW v \in Tasks
  PROVE  plan'[v] = plan[v] \/ plan'[v].by # "call" \/ Planned(v)
<1>1. ASSUME NEW content \in Contents, Create(content)
      PROVE  plan'[v] = plan[v] \/ plan'[v].by # "call" \/ Planned(v)
  BY <1>1
  DEF Create, Planned, ScheduleVectorSync, Starts, task, TypeInv, TypeOK
<1>2. ASSUME NEW content \in Contents, Enrich(content)
      PROVE  plan'[v] = plan[v] \/ plan'[v].by # "call" \/ Planned(v)
  BY <1>2
  DEF Enrich, task, Planned, NoPlan, TypeInv, TypeOK
<1>3. ASSUME NEW content \in Contents, NEW enabled \in Enabled, Update(content, enabled)
      PROVE  plan'[v] = plan[v] \/ plan'[v].by # "call" \/ Planned(v)
  <2>1. CASE FullResync(doc, content)
    BY <1>3, <2>1
    DEF Update, Planned, ScheduleVectorSync, Starts, task, TypeInv, TypeOK
  <2>2. CASE ~FullResync(doc, content)
    <3>1. doc \in Docs
      BY <1>3, LiveIsTyped DEF Update, DocOK, TypeInv, TypeOK
    <3>2. Live /\ ~Pending(doc) /\ doc'.content = doc.content
      BY <1>3, <2>2, <3>1 DEF Update, FullResync, Marked, Docs
    <3> QED BY <1>3, <3>2
            DEF Update, Planned, ScheduleVectorSync, Starts, task, TypeInv, TypeOK
  <2> QED BY <2>1, <2>2
<1>4. CASE Delete
  BY <1>4
  DEF Delete, task, Planned, NoPlan, TypeInv, TypeOK
<1>5. ASSUME NEW c \in Callers, Read(c)
      PROVE  plan'[v] = plan[v] \/ plan'[v].by # "call" \/ Planned(v)
  BY <1>5
  DEF Read, task, Planned, NoPlan, TypeInv, TypeOK
<1>6. ASSUME NEW c \in Callers, Enable(c)
      PROVE  plan'[v] = plan[v] \/ plan'[v].by # "call" \/ Planned(v)
  BY <1>6
  DEF Enable, SaveMarked, ScheduleVectorSync, Starts, task, Planned, NoPlan, TypeInv,
    TypeOK
<1>7. ASSUME NEW c \in Callers, Disable(c)
      PROVE  plan'[v] = plan[v] \/ plan'[v].by # "call" \/ Planned(v)
  <2>1. PICK x \in Contents : SaveMarked(c, x, "disabled", FullResync(copy[c], x))
    BY <1>7 DEF Disable, SaveMarked, Docs, TypeInv, TypeOK
  <2>2. copy[c] = doc /\ doc \in Docs
    BY <2>1, causes' = {} DEF SaveMarked, Stale, TypeInv, TypeOK
  <2>3. CASE FullResync(doc, x)
    BY <2>1, <2>2, <2>3
    DEF SaveMarked, Planned, ScheduleVectorSync, Starts, task, TypeInv, TypeOK
  <2>4. CASE ~FullResync(doc, x)
    <3>1. Live /\ ~Pending(doc) /\ doc'.content = doc.content
      BY <2>1, <2>2, <2>4 DEF SaveMarked, FullResync, Marked, Docs, Live
    <3> QED BY <2>1, <2>2, <3>1
            DEF SaveMarked, Planned, ScheduleVectorSync, Starts, task, TypeInv, TypeOK
  <2> QED BY <2>3, <2>4
<1>8. ASSUME NEW c \in Callers, Refresh(c)
      PROVE  plan'[v] = plan[v] \/ plan'[v].by # "call" \/ Planned(v)
  <2>1. PICK x \in Contents : SaveMarked(c, x, copy[c].enabled, FullResync(copy[c], x))
    BY <1>8 DEF Refresh, SaveMarked, Docs, TypeInv, TypeOK
  <2>2. copy[c] = doc /\ doc \in Docs
    BY <2>1, causes' = {} DEF SaveMarked, Stale, TypeInv, TypeOK
  <2>3. CASE FullResync(doc, x)
    BY <2>1, <2>2, <2>3
    DEF SaveMarked, Planned, ScheduleVectorSync, Starts, task, TypeInv, TypeOK
  <2>4. CASE ~FullResync(doc, x)
    <3>1. Live /\ ~Pending(doc) /\ doc'.content = doc.content
      BY <2>1, <2>2, <2>4 DEF SaveMarked, FullResync, Marked, Docs, Live
    <3> QED BY <2>1, <2>2, <3>1
            DEF SaveMarked, Planned, ScheduleVectorSync, Starts, task, TypeInv, TypeOK
  <2> QED BY <2>3, <2>4
<1>9. ASSUME NEW c \in Callers, RollBack(c)
      PROVE  plan'[v] = plan[v] \/ plan'[v].by # "call" \/ Planned(v)
  BY <1>9
  DEF RollBack, SaveUnmarked, task, Planned, NoPlan, TypeInv, TypeOK
<1>10. ASSUME NEW c \in Callers, RecordError(c)
      PROVE  plan'[v] = plan[v] \/ plan'[v].by # "call" \/ Planned(v)
  BY <1>10
  DEF RecordError, SaveUnmarked, task, Planned, NoPlan, TypeInv, TypeOK
<1>11. ASSUME NEW w \in Tasks, Reconcile(w)
      PROVE  plan'[v] = plan[v] \/ plan'[v].by # "call" \/ Planned(v)
  BY <1>11
  DEF Reconcile, Starts, task, Planned, NoPlan, TypeInv, TypeOK
<1>12. ASSUME NEW w \in Tasks, Repair(w)
      PROVE  plan'[v] = plan[v] \/ plan'[v].by # "call" \/ Planned(v)
  BY <1>12
  DEF Repair, Starts, task, Planned, NoPlan, TypeInv, TypeOK
<1>13. ASSUME NEW w \in Tasks, Claim(w)
      PROVE  plan'[v] = plan[v] \/ plan'[v].by # "call" \/ Planned(v)
  BY <1>13
  DEF Claim, Goto, Forget, task, Planned, NoPlan, TypeInv, TypeOK
<1>14. ASSUME NEW w \in Tasks, Load(w)
      PROVE  plan'[v] = plan[v] \/ plan'[v].by # "call" \/ Planned(v)
  BY <1>14
  DEF Load, Goto, Reads, task, Planned, NoPlan, TypeInv, TypeOK
<1>15. ASSUME NEW w \in Tasks, Stamp(w)
      PROVE  plan'[v] = plan[v] \/ plan'[v].by # "call" \/ Planned(v)
  BY <1>15
  DEF Stamp, Goto, task, Planned, NoPlan, TypeInv, TypeOK
<1>16. ASSUME NEW w \in Tasks, Reload(w)
      PROVE  plan'[v] = plan[v] \/ plan'[v].by # "call" \/ Planned(v)
  BY <1>16
  DEF Reload, Goto, Reads, task, Planned, NoPlan, TypeInv, TypeOK
<1>17. ASSUME NEW w \in Tasks, AssertOwned(w)
      PROVE  plan'[v] = plan[v] \/ plan'[v].by # "call" \/ Planned(v)
  BY <1>17
  DEF AssertOwned, Goto, Ends, task, Planned, NoPlan, TypeInv, TypeOK
<1>18. ASSUME NEW w \in Tasks, Write(w)
      PROVE  plan'[v] = plan[v] \/ plan'[v].by # "call" \/ Planned(v)
  BY <1>18
  DEF Write, Goto, Written, task, Planned, NoPlan, TypeInv, TypeOK
<1>19. ASSUME NEW w \in Tasks, Insert(w)
      PROVE  plan'[v] = plan[v] \/ plan'[v].by # "call" \/ Planned(v)
  BY <1>19
  DEF Insert, Goto, Written, task, Planned, NoPlan, TypeInv, TypeOK
<1>20. ASSUME NEW w \in Tasks, Clear(w)
      PROVE  plan'[v] = plan[v] \/ plan'[v].by # "call" \/ Planned(v)
  BY <1>20
  DEF Clear, Goto, Ends, task, Planned, NoPlan, TypeInv, TypeOK
<1>21. ASSUME NEW w \in Tasks, Dirty(w)
      PROVE  plan'[v] = plan[v] \/ plan'[v].by # "call" \/ Planned(v)
  BY <1>21
  DEF Dirty, Goto, task, Planned, NoPlan, TypeInv, TypeOK
<1>22. ASSUME NEW w \in Tasks, Disown(w)
      PROVE  plan'[v] = plan[v] \/ plan'[v].by # "call" \/ Planned(v)
  BY <1>22
  DEF Disown, Goto, task, Planned, NoPlan, TypeInv, TypeOK
<1>23. ASSUME NEW w \in Tasks, Release(w)
      PROVE  plan'[v] = plan[v] \/ plan'[v].by # "call" \/ Planned(v)
  BY <1>23
  DEF Release, Goto, Forget, task, Planned, NoPlan, TypeInv, TypeOK
<1>24. ASSUME NEW w \in Tasks, Requeue(w)
      PROVE  plan'[v] = plan[v] \/ plan'[v].by # "call" \/ Planned(v)
  BY <1>24
  DEF Requeue, Forget, task, Planned, NoPlan, TypeInv, TypeOK
<1>25. ASSUME NEW w \in Tasks, LeaseLost(w)
      PROVE  plan'[v] = plan[v] \/ plan'[v].by # "call" \/ Planned(v)
  BY <1>25
  DEF LeaseLost, Cancelled, Ends, task, Planned, NoPlan, TypeInv, TypeOK
<1>26. ASSUME NEW w \in Tasks, Shutdown(w)
      PROVE  plan'[v] = plan[v] \/ plan'[v].by # "call" \/ Planned(v)
  BY <1>26
  DEF Shutdown, Cancelled, Ends, task, Planned, NoPlan, TypeInv, TypeOK
<1>27. ASSUME NEW w \in Tasks, Silence(w)
      PROVE  plan'[v] = plan[v] \/ plan'[v].by # "call" \/ Planned(v)
  BY <1>27
  DEF Silence, Cancelled, Ends, task, Planned, NoPlan, TypeInv, TypeOK
<1>28. ASSUME NEW w \in Tasks, WriteFails(w)
      PROVE  plan'[v] = plan[v] \/ plan'[v].by # "call" \/ Planned(v)
  BY <1>28
  DEF WriteFails, Ends, Goto, task, Planned, NoPlan, TypeInv, TypeOK
<1>29. ASSUME NEW w \in Tasks, Crash(w)
      PROVE  plan'[v] = plan[v] \/ plan'[v].by # "call" \/ Planned(v)
  BY <1>29
  DEF Crash, Forget, task, Planned, NoPlan, TypeInv, TypeOK
<1>30. CASE Lapse
  BY <1>30
  DEF Lapse, task, Planned, NoPlan, TypeInv, TypeOK
<1>31. CASE DeleteVectors
  BY <1>31
  DEF DeleteVectors, task, Planned, NoPlan, TypeInv, TypeOK
<1>32. CASE ListVectors
  BY <1>32
  DEF ListVectors, task, Planned, NoPlan, TypeInv, TypeOK
<1>33. CASE ReadEntities
  BY <1>33
  DEF ReadEntities, Known, task, Planned, NoPlan, TypeInv, TypeOK
<1>34. CASE DeleteOrphan
  BY <1>34
  DEF DeleteOrphan, task, Planned, NoPlan, TypeInv, TypeOK
<1>35. CASE UNCHANGED vars
  BY <1>35
  DEF vars, task, Planned, NoPlan, TypeInv, TypeOK
<1> QED BY <1>1, <1>2, <1>3, <1>4, <1>5, <1>6, <1>7, <1>8, <1>9, <1>10, <1>11, <1>12,
    <1>13, <1>14, <1>15, <1>16, <1>17, <1>18, <1>19, <1>20, <1>21, <1>22, <1>23, <1>24,
    <1>25, <1>26, <1>27, <1>28, <1>29, <1>30, <1>31, <1>32, <1>33, <1>34, <1>35
  DEF Next, Call, SyncStep, Sweep

-----------------------------------------------------------------------------
(* Nothing is deleted before the entity is, and it stays deleted.          *)

Clean == doc = Unborn =>
  vectors = NoVectors /\ sweep = "idle" /\ \A w \in Tasks : pc[w] = Idle
Deleted == causes = {} /\ (deletions > 0 \/ sweep = "doomed") => doc = Gone

LEMMA SavedIsTyped ==
  ASSUME TypeInv, NEW c \in Callers, Enable(c) \/ Disable(c) \/ Refresh(c)
  PROVE  doc' \in Docs
<1>1. copy[c] \in Docs /\ ClockGoesOn
  BY DEF Enable, Disable, Refresh, SaveMarked, TypeInv, TypeOK
<1>2. PICK x \in Contents, e \in Enabled :
             doc' = Marked([copy[c] EXCEPT !.content = x, !.enabled = e])
  BY <1>1 DEF Enable, Disable, Refresh, SaveMarked, Docs, Enabled
<1>3. [copy[c] EXCEPT !.content = x, !.enabled = e] \in Docs
  BY <1>1 DEF Docs
<1> QED BY <1>1, <1>2, <1>3, MarkedIsTyped

LEMMA ClearedStays ==
  ASSUME TypeInv, NEW w \in Tasks
  PROVE  Cleared(w) = Unborn => doc = Unborn
BY LiveIsTyped DEF Cleared, Clears, Docs, Unborn, DocOK, TypeInv, TypeOK

LEMMA UnbornStep ==
  ASSUME TypeInv, [Next]_vars, doc' = Unborn
  PROVE  doc = Unborn
<1>1. ASSUME NEW content \in Contents, Create(content) PROVE doc = Unborn
  BY <1>1, doc' = Unborn
  DEF Create, Docs, Unborn, Gone, Live, TypeInv, TypeOK
<1>2. ASSUME NEW content \in Contents, Enrich(content) PROVE doc = Unborn
  BY <1>2, doc' = Unborn
  DEF Enrich, Docs, Unborn, Gone, Live, TypeInv, TypeOK
<1>3. ASSUME NEW content \in Contents, NEW enabled \in Enabled, Update(content, enabled)
      PROVE  doc = Unborn
  <2>1. [doc EXCEPT !.content = content, !.enabled = enabled] \in Docs /\ ClockGoesOn
    BY <1>3, LiveIsTyped DEF Update, Docs, DocOK, TypeInv, TypeOK
  <2>2. doc' \in Docs
    BY <1>3, <2>1, MarkedIsTyped DEF Update
  <2> QED BY <2>2, doc' = Unborn DEF Docs, Unborn
<1>4. CASE Delete
  BY <1>4, doc' = Unborn
  DEF Delete, Docs, Unborn, Gone, Live, TypeInv, TypeOK
<1>5. ASSUME NEW c \in Callers, Read(c) PROVE doc = Unborn
  BY <1>5, doc' = Unborn
  DEF Read, Docs, Unborn, Gone, Live, TypeInv, TypeOK
<1>6. ASSUME NEW c \in Callers, Enable(c) PROVE doc = Unborn
  BY <1>6, SavedIsTyped, doc' = Unborn DEF Docs, Unborn
<1>7. ASSUME NEW c \in Callers, Disable(c) PROVE doc = Unborn
  BY <1>7, SavedIsTyped, doc' = Unborn DEF Docs, Unborn
<1>8. ASSUME NEW c \in Callers, Refresh(c) PROVE doc = Unborn
  BY <1>8, SavedIsTyped, doc' = Unborn DEF Docs, Unborn
<1>9. ASSUME NEW c \in Callers, RollBack(c) PROVE doc = Unborn
  BY <1>9, doc' = Unborn
  DEF RollBack, SaveUnmarked, Docs, Unborn, Gone, Live, TypeInv, TypeOK
<1>10. ASSUME NEW c \in Callers, RecordError(c) PROVE doc = Unborn
  BY <1>10, doc' = Unborn
  DEF RecordError, SaveUnmarked, Docs, Unborn, Gone, Live, TypeInv, TypeOK
<1>11. ASSUME NEW w \in Tasks, Reconcile(w) PROVE doc = Unborn
  BY <1>11, doc' = Unborn
  DEF Reconcile, Docs, Unborn, Gone, Live, TypeInv, TypeOK
<1>12. ASSUME NEW w \in Tasks, Repair(w) PROVE doc = Unborn
  BY <1>12, doc' = Unborn
  DEF Repair, Docs, Unborn, Gone, Live, TypeInv, TypeOK
<1>13. ASSUME NEW w \in Tasks, Claim(w) PROVE doc = Unborn
  BY <1>13, doc' = Unborn
  DEF Claim, Docs, Unborn, Gone, Live, TypeInv, TypeOK
<1>14. ASSUME NEW w \in Tasks, Load(w) PROVE doc = Unborn
  BY <1>14, doc' = Unborn
  DEF Load, Docs, Unborn, Gone, Live, TypeInv, TypeOK
<1>15. ASSUME NEW w \in Tasks, Stamp(w) PROVE doc = Unborn
  <2>1. CASE Live
    <3>1. Marked(doc) \in Docs
      BY <1>15, <2>1, LiveIsTyped, MarkedIsTyped DEF Stamp, DocOK, TypeInv, TypeOK
    <3> QED BY <1>15, <2>1, <3>1, doc' = Unborn DEF Stamp, MarkDirty, Docs, Unborn
  <2>2. CASE ~Live
    BY <1>15, <2>2, doc' = Unborn DEF Stamp, MarkDirty
  <2> QED BY <2>1, <2>2
<1>16. ASSUME NEW w \in Tasks, Reload(w) PROVE doc = Unborn
  BY <1>16, doc' = Unborn
  DEF Reload, Docs, Unborn, Gone, Live, TypeInv, TypeOK
<1>17. ASSUME NEW w \in Tasks, AssertOwned(w) PROVE doc = Unborn
  BY <1>17, doc' = Unborn
  DEF AssertOwned, Docs, Unborn, Gone, Live, TypeInv, TypeOK
<1>18. ASSUME NEW w \in Tasks, Write(w) PROVE doc = Unborn
  BY <1>18, doc' = Unborn
  DEF Write, Docs, Unborn, Gone, Live, TypeInv, TypeOK
<1>19. ASSUME NEW w \in Tasks, Insert(w) PROVE doc = Unborn
  BY <1>19, doc' = Unborn
  DEF Insert, Docs, Unborn, Gone, Live, TypeInv, TypeOK
<1>20. ASSUME NEW w \in Tasks, Clear(w) PROVE doc = Unborn
  BY <1>20, ClearedStays, doc' = Unborn DEF Clear
<1>21. ASSUME NEW w \in Tasks, Dirty(w) PROVE doc = Unborn
  <2>1. CASE Live
    <3>1. Marked(doc) \in Docs
      BY <1>21, <2>1, LiveIsTyped, MarkedIsTyped DEF Dirty, DocOK, TypeInv, TypeOK
    <3> QED BY <1>21, <2>1, <3>1, doc' = Unborn DEF Dirty, MarkDirty, Docs, Unborn
  <2>2. CASE ~Live
    BY <1>21, <2>2, doc' = Unborn DEF Dirty, MarkDirty
  <2> QED BY <2>1, <2>2
<1>22. ASSUME NEW w \in Tasks, Disown(w) PROVE doc = Unborn
  <2>1. CASE Live
    <3>1. Marked(doc) \in Docs
      BY <1>22, <2>1, LiveIsTyped, MarkedIsTyped DEF Disown, DocOK, TypeInv, TypeOK
    <3> QED BY <1>22, <2>1, <3>1, doc' = Unborn DEF Disown, Disowned, MarkDirty, Docs, Unborn
  <2>2. CASE ~Live
    BY <1>22, <2>2, doc' = Unborn DEF Disown, Disowned, MarkDirty
  <2> QED BY <2>1, <2>2
<1>23. ASSUME NEW w \in Tasks, Release(w) PROVE doc = Unborn
  BY <1>23, doc' = Unborn
  DEF Release, Docs, Unborn, Gone, Live, TypeInv, TypeOK
<1>24. ASSUME NEW w \in Tasks, Requeue(w) PROVE doc = Unborn
  <2>1. CASE Live
    <3>1. Marked(doc) \in Docs /\ doc \in Docs
      BY <1>24, <2>1, LiveIsTyped, MarkedIsTyped DEF Requeue, DocOK, TypeInv, TypeOK
    <3> QED BY <1>24, <2>1, <3>1, doc' = Unborn DEF Requeue, Docs, Unborn
  <2>2. CASE ~Live
    BY <1>24, <2>2, doc' = Unborn DEF Requeue
  <2> QED BY <2>1, <2>2
<1>25. ASSUME NEW w \in Tasks, LeaseLost(w) PROVE doc = Unborn
  BY <1>25, ClearedStays, doc' = Unborn DEF LeaseLost, Cancelled
<1>26. ASSUME NEW w \in Tasks, Shutdown(w) PROVE doc = Unborn
  BY <1>26, ClearedStays, doc' = Unborn DEF Shutdown, Cancelled
<1>27. ASSUME NEW w \in Tasks, Silence(w) PROVE doc = Unborn
  BY <1>27, ClearedStays, doc' = Unborn DEF Silence, Cancelled
<1>28. ASSUME NEW w \in Tasks, WriteFails(w) PROVE doc = Unborn
  BY <1>28, doc' = Unborn
  DEF WriteFails, Docs, Unborn, Gone, Live, TypeInv, TypeOK
<1>29. ASSUME NEW w \in Tasks, Crash(w) PROVE doc = Unborn
  BY <1>29, doc' = Unborn
  DEF Crash, Docs, Unborn, Gone, Live, TypeInv, TypeOK
<1>30. CASE Lapse
  BY <1>30, doc' = Unborn
  DEF Lapse, Docs, Unborn, Gone, Live, TypeInv, TypeOK
<1>31. CASE DeleteVectors
  BY <1>31, doc' = Unborn
  DEF DeleteVectors, Docs, Unborn, Gone, Live, TypeInv, TypeOK
<1>32. CASE ListVectors
  BY <1>32, doc' = Unborn
  DEF ListVectors, Docs, Unborn, Gone, Live, TypeInv, TypeOK
<1>33. CASE ReadEntities
  BY <1>33, doc' = Unborn
  DEF ReadEntities, Known, Docs, Unborn, Gone, Live, TypeInv, TypeOK
<1>34. CASE DeleteOrphan
  BY <1>34, doc' = Unborn
  DEF DeleteOrphan, Docs, Unborn, Gone, Live, TypeInv, TypeOK
<1>35. CASE UNCHANGED vars
  BY <1>35, doc' = Unborn
  DEF vars, Docs, Unborn, Gone, Live, TypeInv, TypeOK
<1> QED BY <1>1, <1>2, <1>3, <1>4, <1>5, <1>6, <1>7, <1>8, <1>9, <1>10, <1>11, <1>12,
    <1>13, <1>14, <1>15, <1>16, <1>17, <1>18, <1>19, <1>20, <1>21, <1>22, <1>23, <1>24,
    <1>25, <1>26, <1>27, <1>28, <1>29, <1>30, <1>31, <1>32, <1>33, <1>34, <1>35
  DEF Next, Call, SyncStep, Sweep

LEMMA CleanStep ==
  ASSUME TypeInv, Clean, [Next]_vars
  PROVE  Clean'
<1> SUFFICES ASSUME doc' = Unborn
             PROVE  (vectors = NoVectors /\ sweep = "idle" /\ \A w \in Tasks : pc[w] = Idle)'
  BY DEF Clean
<1>1. /\ doc = Unborn /\ ~Live /\ vectors = NoVectors /\ sweep = "idle"
      /\ \A w \in Tasks : pc[w] = Idle
  BY UnbornStep, doc' = Unborn DEF Clean, Unborn, Live
<1> DEFINE Still == UNCHANGED pc /\ UNCHANGED sweep /\ (vectors' = vectors \/ vectors' = NoVectors)
<1>2. Still
  <2>1. ASSUME NEW content \in Contents, Create(content) PROVE Still
    BY <2>1, doc' = Unborn DEF Create, Unborn
  <2>2. ASSUME NEW content \in Contents, Enrich(content) PROVE Still
    BY <2>2, <1>1
    DEF Enrich, task, Unborn, Gone, Idle, Writing, Coupled
  <2>3. ASSUME NEW content \in Contents, NEW enabled \in Enabled, Update(content, enabled)
        PROVE  Still
    BY <2>3, <1>1
    DEF Update, ScheduleVectorSync, Starts, task, Unborn, Gone, Idle, Writing, Coupled
  <2>4. CASE Delete
    BY <2>4, <1>1
    DEF Delete, task, Unborn, Gone, Idle, Writing, Coupled
  <2>5. ASSUME NEW c \in Callers, Read(c) PROVE Still
    BY <2>5, <1>1
    DEF Read, task, Unborn, Gone, Idle, Writing, Coupled
  <2>6. ASSUME NEW c \in Callers, Enable(c) PROVE Still
    BY <2>6, SavedIsTyped, doc' = Unborn DEF Docs, Unborn
  <2>7. ASSUME NEW c \in Callers, Disable(c) PROVE Still
    BY <2>7, SavedIsTyped, doc' = Unborn DEF Docs, Unborn
  <2>8. ASSUME NEW c \in Callers, Refresh(c) PROVE Still
    BY <2>8, SavedIsTyped, doc' = Unborn DEF Docs, Unborn
  <2>9. ASSUME NEW c \in Callers, RollBack(c) PROVE Still
    BY <2>9, <1>1
    DEF RollBack, SaveUnmarked, task, Unborn, Gone, Idle, Writing, Coupled
  <2>10. ASSUME NEW c \in Callers, RecordError(c) PROVE Still
    BY <2>10, <1>1
    DEF RecordError, SaveUnmarked, task, Unborn, Gone, Idle, Writing, Coupled
  <2>11. ASSUME NEW w \in Tasks, Reconcile(w) PROVE Still
    BY <2>11, <1>1
    DEF Reconcile, Starts, task, Unborn, Gone, Idle, Writing, Coupled
  <2>12. ASSUME NEW w \in Tasks, Repair(w) PROVE Still
    BY <2>12, <1>1
    DEF Repair, Starts, task, Unborn, Gone, Idle, Writing, Coupled
  <2>13. ASSUME NEW w \in Tasks, Claim(w) PROVE Still
    BY <2>13, <1>1
    DEF Claim, task, Unborn, Gone, Idle, Writing, Coupled
  <2>14. ASSUME NEW w \in Tasks, Load(w) PROVE Still
    BY <2>14, <1>1
    DEF Load, task, Unborn, Gone, Idle, Writing, Coupled
  <2>15. ASSUME NEW w \in Tasks, Stamp(w) PROVE Still
    BY <2>15, <1>1
    DEF Stamp, task, Unborn, Gone, Idle, Writing, Coupled
  <2>16. ASSUME NEW w \in Tasks, Reload(w) PROVE Still
    BY <2>16, <1>1
    DEF Reload, task, Unborn, Gone, Idle, Writing, Coupled
  <2>17. ASSUME NEW w \in Tasks, AssertOwned(w) PROVE Still
    BY <2>17, <1>1
    DEF AssertOwned, task, Unborn, Gone, Idle, Writing, Coupled
  <2>18. ASSUME NEW w \in Tasks, Write(w) PROVE Still
    BY <2>18, <1>1
    DEF Write, task, Unborn, Gone, Idle, Writing, Coupled
  <2>19. ASSUME NEW w \in Tasks, Insert(w) PROVE Still
    BY <2>19, <1>1
    DEF Insert, task, Unborn, Gone, Idle, Writing, Coupled
  <2>20. ASSUME NEW w \in Tasks, Clear(w) PROVE Still
    BY <2>20, <1>1
    DEF Clear, task, Unborn, Gone, Idle, Writing, Coupled
  <2>21. ASSUME NEW w \in Tasks, Dirty(w) PROVE Still
    BY <2>21, <1>1
    DEF Dirty, task, Unborn, Gone, Idle, Writing, Coupled
  <2>22. ASSUME NEW w \in Tasks, Disown(w) PROVE Still
    BY <2>22, <1>1
    DEF Disown, task, Unborn, Gone, Idle, Writing, Coupled
  <2>23. ASSUME NEW w \in Tasks, Release(w) PROVE Still
    BY <2>23, <1>1
    DEF Release, task, Unborn, Gone, Idle, Writing, Coupled
  <2>24. ASSUME NEW w \in Tasks, Requeue(w) PROVE Still
    BY <2>24, <1>1
    DEF Requeue, task, Unborn, Gone, Idle, Writing, Coupled
  <2>25. ASSUME NEW w \in Tasks, LeaseLost(w) PROVE Still
    BY <2>25, <1>1
    DEF LeaseLost, Cancelled, task, Unborn, Gone, Idle, Writing, Coupled
  <2>26. ASSUME NEW w \in Tasks, Shutdown(w) PROVE Still
    BY <2>26, <1>1
    DEF Shutdown, Cancelled, task, Unborn, Gone, Idle, Writing, Coupled
  <2>27. ASSUME NEW w \in Tasks, Silence(w) PROVE Still
    BY <2>27, <1>1
    DEF Silence, Cancelled, task, Unborn, Gone, Idle, Writing, Coupled
  <2>28. ASSUME NEW w \in Tasks, WriteFails(w) PROVE Still
    BY <2>28, <1>1
    DEF WriteFails, task, Unborn, Gone, Idle, Writing, Coupled
  <2>29. ASSUME NEW w \in Tasks, Crash(w) PROVE Still
    BY <2>29, <1>1
    DEF Crash, task, Unborn, Gone, Idle, Writing, Coupled
  <2>30. CASE Lapse
    BY <2>30, <1>1
    DEF Lapse, task, Unborn, Gone, Idle, Writing, Coupled
  <2>31. CASE DeleteVectors
    BY <2>31, <1>1
    DEF DeleteVectors, task, Unborn, Gone, Idle, Writing, Coupled
  <2>32. CASE ListVectors
    BY <2>32, <1>1
    DEF ListVectors, task, Unborn, Gone, Idle, Writing, Coupled
  <2>33. CASE ReadEntities
    BY <2>33, <1>1
    DEF ReadEntities, Known, task, Unborn, Gone, Idle, Writing, Coupled
  <2>34. CASE DeleteOrphan
    BY <2>34, <1>1
    DEF DeleteOrphan, task, Unborn, Gone, Idle, Writing, Coupled
  <2>35. CASE UNCHANGED vars
    BY <2>35, <1>1
    DEF vars, task, Unborn, Gone, Idle, Writing, Coupled
  <2> QED BY <2>1, <2>2, <2>3, <2>4, <2>5, <2>6, <2>7, <2>8, <2>9, <2>10, <2>11, <2>12,
      <2>13, <2>14, <2>15, <2>16, <2>17, <2>18, <2>19, <2>20, <2>21, <2>22, <2>23,
      <2>24, <2>25, <2>26, <2>27, <2>28, <2>29, <2>30, <2>31, <2>32, <2>33, <2>34, <2>35
    DEF Next, Call, SyncStep, Sweep
<1> QED BY <1>1, <1>2

LEMMA DeletedStep ==
  ASSUME TypeInv, Clean, Deleted, [Next]_vars
  PROVE  Deleted'
<1> SUFFICES ASSUME causes' = {}, deletions' > 0 \/ sweep' = "doomed"
             PROVE  doc' = Gone
  BY DEF Deleted
<1>1. causes = {}
  BY CausesStay
<1>2. doc = Gone \/ doc' = Gone
  <2>1. ASSUME NEW content \in Contents, Create(content) PROVE doc = Gone \/ doc' = Gone
    BY <2>1, <1>1, deletions' > 0 \/ sweep' = "doomed"
    DEF Create, Deleted, TypeInv, TypeOK
  <2>2. ASSUME NEW content \in Contents, Enrich(content) PROVE doc = Gone \/ doc' = Gone
    BY <2>2, <1>1, deletions' > 0 \/ sweep' = "doomed"
    DEF Enrich, Deleted, TypeInv, TypeOK
  <2>3. ASSUME NEW content \in Contents, NEW enabled \in Enabled, Update(content, enabled)
        PROVE  doc = Gone \/ doc' = Gone
    BY <2>3, <1>1, deletions' > 0 \/ sweep' = "doomed"
    DEF Update, Deleted, TypeInv, TypeOK
  <2>4. CASE Delete
    BY <2>4 DEF Delete
  <2>5. ASSUME NEW c \in Callers, Read(c) PROVE doc = Gone \/ doc' = Gone
    BY <2>5, <1>1, deletions' > 0 \/ sweep' = "doomed"
    DEF Read, Deleted, TypeInv, TypeOK
  <2>6. ASSUME NEW c \in Callers, Enable(c) PROVE doc = Gone \/ doc' = Gone
    BY <2>6, <1>1, deletions' > 0 \/ sweep' = "doomed"
    DEF Enable, SaveMarked, Deleted, TypeInv, TypeOK
  <2>7. ASSUME NEW c \in Callers, Disable(c) PROVE doc = Gone \/ doc' = Gone
    BY <2>7, <1>1, deletions' > 0 \/ sweep' = "doomed"
    DEF Disable, SaveMarked, Deleted, TypeInv, TypeOK
  <2>8. ASSUME NEW c \in Callers, Refresh(c) PROVE doc = Gone \/ doc' = Gone
    BY <2>8, <1>1, deletions' > 0 \/ sweep' = "doomed"
    DEF Refresh, SaveMarked, Deleted, TypeInv, TypeOK
  <2>9. ASSUME NEW c \in Callers, RollBack(c) PROVE doc = Gone \/ doc' = Gone
    BY <2>9, <1>1, deletions' > 0 \/ sweep' = "doomed"
    DEF RollBack, SaveUnmarked, Deleted, TypeInv, TypeOK
  <2>10. ASSUME NEW c \in Callers, RecordError(c) PROVE doc = Gone \/ doc' = Gone
    BY <2>10, <1>1, deletions' > 0 \/ sweep' = "doomed"
    DEF RecordError, SaveUnmarked, Deleted, TypeInv, TypeOK
  <2>11. ASSUME NEW w \in Tasks, Reconcile(w) PROVE doc = Gone \/ doc' = Gone
    BY <2>11, <1>1, deletions' > 0 \/ sweep' = "doomed"
    DEF Reconcile, Deleted, TypeInv, TypeOK
  <2>12. ASSUME NEW w \in Tasks, Repair(w) PROVE doc = Gone \/ doc' = Gone
    BY <2>12, <1>1, deletions' > 0 \/ sweep' = "doomed"
    DEF Repair, Deleted, TypeInv, TypeOK
  <2>13. ASSUME NEW w \in Tasks, Claim(w) PROVE doc = Gone \/ doc' = Gone
    BY <2>13, <1>1, deletions' > 0 \/ sweep' = "doomed"
    DEF Claim, Deleted, TypeInv, TypeOK
  <2>14. ASSUME NEW w \in Tasks, Load(w) PROVE doc = Gone \/ doc' = Gone
    BY <2>14, <1>1, deletions' > 0 \/ sweep' = "doomed"
    DEF Load, Deleted, TypeInv, TypeOK
  <2>15. ASSUME NEW w \in Tasks, Stamp(w) PROVE doc = Gone \/ doc' = Gone
    BY <2>15, <1>1, deletions' > 0 \/ sweep' = "doomed"
    DEF Stamp, Deleted, TypeInv, TypeOK
  <2>16. ASSUME NEW w \in Tasks, Reload(w) PROVE doc = Gone \/ doc' = Gone
    BY <2>16, <1>1, deletions' > 0 \/ sweep' = "doomed"
    DEF Reload, Deleted, TypeInv, TypeOK
  <2>17. ASSUME NEW w \in Tasks, AssertOwned(w) PROVE doc = Gone \/ doc' = Gone
    BY <2>17, <1>1, deletions' > 0 \/ sweep' = "doomed"
    DEF AssertOwned, Deleted, TypeInv, TypeOK
  <2>18. ASSUME NEW w \in Tasks, Write(w) PROVE doc = Gone \/ doc' = Gone
    BY <2>18, <1>1, deletions' > 0 \/ sweep' = "doomed"
    DEF Write, Deleted, TypeInv, TypeOK
  <2>19. ASSUME NEW w \in Tasks, Insert(w) PROVE doc = Gone \/ doc' = Gone
    BY <2>19, <1>1, deletions' > 0 \/ sweep' = "doomed"
    DEF Insert, Deleted, TypeInv, TypeOK
  <2>20. ASSUME NEW w \in Tasks, Clear(w) PROVE doc = Gone \/ doc' = Gone
    BY <2>20, <1>1, deletions' > 0 \/ sweep' = "doomed"
    DEF Clear, Deleted, TypeInv, TypeOK
  <2>21. ASSUME NEW w \in Tasks, Dirty(w) PROVE doc = Gone \/ doc' = Gone
    BY <2>21, <1>1, deletions' > 0 \/ sweep' = "doomed"
    DEF Dirty, Deleted, TypeInv, TypeOK
  <2>22. ASSUME NEW w \in Tasks, Disown(w) PROVE doc = Gone \/ doc' = Gone
    BY <2>22, <1>1, deletions' > 0 \/ sweep' = "doomed"
    DEF Disown, Deleted, TypeInv, TypeOK
  <2>23. ASSUME NEW w \in Tasks, Release(w) PROVE doc = Gone \/ doc' = Gone
    BY <2>23, <1>1, deletions' > 0 \/ sweep' = "doomed"
    DEF Release, Deleted, TypeInv, TypeOK
  <2>24. ASSUME NEW w \in Tasks, Requeue(w) PROVE doc = Gone \/ doc' = Gone
    BY <2>24, <1>1, deletions' > 0 \/ sweep' = "doomed"
    DEF Requeue, Deleted, TypeInv, TypeOK
  <2>25. ASSUME NEW w \in Tasks, LeaseLost(w) PROVE doc = Gone \/ doc' = Gone
    BY <2>25, <1>1, deletions' > 0 \/ sweep' = "doomed"
    DEF LeaseLost, Cancelled, Deleted, TypeInv, TypeOK
  <2>26. ASSUME NEW w \in Tasks, Shutdown(w) PROVE doc = Gone \/ doc' = Gone
    BY <2>26, <1>1, deletions' > 0 \/ sweep' = "doomed"
    DEF Shutdown, Cancelled, Deleted, TypeInv, TypeOK
  <2>27. ASSUME NEW w \in Tasks, Silence(w) PROVE doc = Gone \/ doc' = Gone
    BY <2>27, <1>1, deletions' > 0 \/ sweep' = "doomed"
    DEF Silence, Cancelled, Deleted, TypeInv, TypeOK
  <2>28. ASSUME NEW w \in Tasks, WriteFails(w) PROVE doc = Gone \/ doc' = Gone
    BY <2>28, <1>1, deletions' > 0 \/ sweep' = "doomed"
    DEF WriteFails, Deleted, TypeInv, TypeOK
  <2>29. ASSUME NEW w \in Tasks, Crash(w) PROVE doc = Gone \/ doc' = Gone
    BY <2>29, <1>1, deletions' > 0 \/ sweep' = "doomed"
    DEF Crash, Deleted, TypeInv, TypeOK
  <2>30. CASE Lapse
    BY <2>30, <1>1, deletions' > 0 \/ sweep' = "doomed"
    DEF Lapse, Deleted, TypeInv, TypeOK
  <2>31. CASE DeleteVectors
    BY <2>31, <1>1, deletions' > 0 \/ sweep' = "doomed"
    DEF DeleteVectors, Deleted, TypeInv, TypeOK
  <2>32. CASE ListVectors
    BY <2>32, <1>1, deletions' > 0 \/ sweep' = "doomed"
    DEF ListVectors, Deleted, TypeInv, TypeOK
  <2>33. CASE ReadEntities
    <3>1. CASE sweep' = "doomed"
      <4>1. ~Live /\ sweep = "found"
        BY <2>33, <3>1 DEF ReadEntities, Known
      <4> QED BY <4>1, LiveIsTyped DEF Clean, TypeInv, TypeOK, Live, Docs
    <3>2. CASE deletions' > 0
      BY <2>33, <3>2, <1>1 DEF ReadEntities, Deleted
    <3> QED BY <3>1, <3>2
  <2>34. CASE DeleteOrphan
    BY <2>34, <1>1, deletions' > 0 \/ sweep' = "doomed"
    DEF DeleteOrphan, Deleted, TypeInv, TypeOK
  <2>35. CASE UNCHANGED vars
    BY <2>35, <1>1, deletions' > 0 \/ sweep' = "doomed"
    DEF vars, Deleted, TypeInv, TypeOK
  <2> QED BY <2>1, <2>2, <2>3, <2>4, <2>5, <2>6, <2>7, <2>8, <2>9, <2>10, <2>11, <2>12,
      <2>13, <2>14, <2>15, <2>16, <2>17, <2>18, <2>19, <2>20, <2>21, <2>22, <2>23,
      <2>24, <2>25, <2>26, <2>27, <2>28, <2>29, <2>30, <2>31, <2>32, <2>33, <2>34, <2>35
    DEF Next, Call, SyncStep, Sweep
<1>3. doc = Gone => doc' = Gone
  <2> SUFFICES ASSUME doc = Gone PROVE doc' = Gone
    OBVIOUS
  <2>1. ~Live /\ \A d \in Docs : d # doc
    BY DEF Live, Gone, Docs
  <2>2. QED
    <3>1. ASSUME NEW content \in Contents, Create(content) PROVE doc' = Gone
      BY <3>1, doc = Gone DEF Create, Unborn, Gone
    <3>2. ASSUME NEW content \in Contents, Enrich(content) PROVE doc' = Gone
      BY <3>2, <2>1, doc = Gone
      DEF Enrich, Cancelled, Cleared, Clears, MarkDirty, Disowned
    <3>3. ASSUME NEW content \in Contents, NEW enabled \in Enabled, Update(content, enabled)
          PROVE  doc' = Gone
      BY <3>3, <2>1, doc = Gone
      DEF Update, Cancelled, Cleared, Clears, MarkDirty, Disowned
    <3>4. CASE Delete
      BY <3>4, <2>1, doc = Gone
      DEF Delete, Cancelled, Cleared, Clears, MarkDirty, Disowned
    <3>5. ASSUME NEW c \in Callers, Read(c) PROVE doc' = Gone
      BY <3>5, <2>1, doc = Gone
      DEF Read, Cancelled, Cleared, Clears, MarkDirty, Disowned
    <3>6. ASSUME NEW c \in Callers, Enable(c) PROVE doc' = Gone
      <4>1. copy[c] \in Docs /\ copy[c] = doc
        BY <3>6, causes' = {} DEF Enable, SaveMarked, Stale, TypeInv, TypeOK
      <4> QED BY <4>1, <2>1
    <3>7. ASSUME NEW c \in Callers, Disable(c) PROVE doc' = Gone
      <4>1. copy[c] \in Docs /\ copy[c] = doc
        BY <3>7, causes' = {} DEF Disable, SaveMarked, Stale, TypeInv, TypeOK
      <4> QED BY <4>1, <2>1
    <3>8. ASSUME NEW c \in Callers, Refresh(c) PROVE doc' = Gone
      <4>1. copy[c] \in Docs /\ copy[c] = doc
        BY <3>8, causes' = {} DEF Refresh, SaveMarked, Stale, TypeInv, TypeOK
      <4> QED BY <4>1, <2>1
    <3>9. ASSUME NEW c \in Callers, RollBack(c) PROVE doc' = Gone
      <4>1. copy[c] \in Docs /\ copy[c] = doc
        BY <3>9, causes' = {} DEF RollBack, SaveUnmarked, Stale, TypeInv, TypeOK
      <4> QED BY <4>1, <2>1
    <3>10. ASSUME NEW c \in Callers, RecordError(c) PROVE doc' = Gone
      <4>1. copy[c] \in Docs /\ copy[c] = doc
        BY <3>10, causes' = {} DEF RecordError, SaveUnmarked, Stale, TypeInv, TypeOK
      <4> QED BY <4>1, <2>1
    <3>11. ASSUME NEW w \in Tasks, Reconcile(w) PROVE doc' = Gone
      BY <3>11, <2>1, doc = Gone
      DEF Reconcile, Cancelled, Cleared, Clears, MarkDirty, Disowned
    <3>12. ASSUME NEW w \in Tasks, Repair(w) PROVE doc' = Gone
      BY <3>12, <2>1, doc = Gone
      DEF Repair, Cancelled, Cleared, Clears, MarkDirty, Disowned
    <3>13. ASSUME NEW w \in Tasks, Claim(w) PROVE doc' = Gone
      BY <3>13, <2>1, doc = Gone
      DEF Claim, Cancelled, Cleared, Clears, MarkDirty, Disowned
    <3>14. ASSUME NEW w \in Tasks, Load(w) PROVE doc' = Gone
      BY <3>14, <2>1, doc = Gone
      DEF Load, Cancelled, Cleared, Clears, MarkDirty, Disowned
    <3>15. ASSUME NEW w \in Tasks, Stamp(w) PROVE doc' = Gone
      BY <3>15, <2>1, doc = Gone
      DEF Stamp, Cancelled, Cleared, Clears, MarkDirty, Disowned
    <3>16. ASSUME NEW w \in Tasks, Reload(w) PROVE doc' = Gone
      BY <3>16, <2>1, doc = Gone
      DEF Reload, Cancelled, Cleared, Clears, MarkDirty, Disowned
    <3>17. ASSUME NEW w \in Tasks, AssertOwned(w) PROVE doc' = Gone
      BY <3>17, <2>1, doc = Gone
      DEF AssertOwned, Cancelled, Cleared, Clears, MarkDirty, Disowned
    <3>18. ASSUME NEW w \in Tasks, Write(w) PROVE doc' = Gone
      BY <3>18, <2>1, doc = Gone
      DEF Write, Cancelled, Cleared, Clears, MarkDirty, Disowned
    <3>19. ASSUME NEW w \in Tasks, Insert(w) PROVE doc' = Gone
      BY <3>19, <2>1, doc = Gone
      DEF Insert, Cancelled, Cleared, Clears, MarkDirty, Disowned
    <3>20. ASSUME NEW w \in Tasks, Clear(w) PROVE doc' = Gone
      BY <3>20, <2>1, doc = Gone
      DEF Clear, Cancelled, Cleared, Clears, MarkDirty, Disowned
    <3>21. ASSUME NEW w \in Tasks, Dirty(w) PROVE doc' = Gone
      BY <3>21, <2>1, doc = Gone
      DEF Dirty, Cancelled, Cleared, Clears, MarkDirty, Disowned
    <3>22. ASSUME NEW w \in Tasks, Disown(w) PROVE doc' = Gone
      BY <3>22, <2>1, doc = Gone
      DEF Disown, Cancelled, Cleared, Clears, MarkDirty, Disowned
    <3>23. ASSUME NEW w \in Tasks, Release(w) PROVE doc' = Gone
      BY <3>23, <2>1, doc = Gone
      DEF Release, Cancelled, Cleared, Clears, MarkDirty, Disowned
    <3>24. ASSUME NEW w \in Tasks, Requeue(w) PROVE doc' = Gone
      BY <3>24, <2>1, doc = Gone
      DEF Requeue, Cancelled, Cleared, Clears, MarkDirty, Disowned
    <3>25. ASSUME NEW w \in Tasks, LeaseLost(w) PROVE doc' = Gone
      BY <3>25, <2>1, doc = Gone
      DEF LeaseLost, Cancelled, Cleared, Clears, MarkDirty, Disowned
    <3>26. ASSUME NEW w \in Tasks, Shutdown(w) PROVE doc' = Gone
      BY <3>26, <2>1, doc = Gone
      DEF Shutdown, Cancelled, Cleared, Clears, MarkDirty, Disowned
    <3>27. ASSUME NEW w \in Tasks, Silence(w) PROVE doc' = Gone
      BY <3>27, <2>1, doc = Gone
      DEF Silence, Cancelled, Cleared, Clears, MarkDirty, Disowned
    <3>28. ASSUME NEW w \in Tasks, WriteFails(w) PROVE doc' = Gone
      BY <3>28, <2>1, doc = Gone
      DEF WriteFails, Cancelled, Cleared, Clears, MarkDirty, Disowned
    <3>29. ASSUME NEW w \in Tasks, Crash(w) PROVE doc' = Gone
      BY <3>29, <2>1, doc = Gone
      DEF Crash, Cancelled, Cleared, Clears, MarkDirty, Disowned
    <3>30. CASE Lapse
      BY <3>30, <2>1, doc = Gone
      DEF Lapse, Cancelled, Cleared, Clears, MarkDirty, Disowned
    <3>31. CASE DeleteVectors
      BY <3>31, <2>1, doc = Gone
      DEF DeleteVectors, Cancelled, Cleared, Clears, MarkDirty, Disowned
    <3>32. CASE ListVectors
      BY <3>32, <2>1, doc = Gone
      DEF ListVectors, Cancelled, Cleared, Clears, MarkDirty, Disowned
    <3>33. CASE ReadEntities
      BY <3>33, <2>1, doc = Gone
      DEF ReadEntities, Cancelled, Cleared, Clears, MarkDirty, Disowned
    <3>34. CASE DeleteOrphan
      BY <3>34, <2>1, doc = Gone
      DEF DeleteOrphan, Cancelled, Cleared, Clears, MarkDirty, Disowned
    <3>35. CASE UNCHANGED vars
      BY <3>35, <2>1, doc = Gone
      DEF vars, Cancelled, Cleared, Clears, MarkDirty, Disowned
    <3> QED BY <3>1, <3>2, <3>3, <3>4, <3>5, <3>6, <3>7, <3>8, <3>9, <3>10, <3>11,
        <3>12, <3>13, <3>14, <3>15, <3>16, <3>17, <3>18, <3>19, <3>20, <3>21, <3>22,
        <3>23, <3>24, <3>25, <3>26, <3>27, <3>28, <3>29, <3>30, <3>31, <3>32, <3>33,
        <3>34, <3>35
      DEF Next, Call, SyncStep, Sweep
<1> QED BY <1>2, <1>3

-----------------------------------------------------------------------------
(* The inductive invariant.  While nothing has brought vectors and         *)
(* document apart:                                                         *)

(* the holder of the lease works on an entity that is marked; *)
HolderIsPending ==
  \A w \in Tasks : causes = {} /\ Live /\ lease.holder = w /\ pc[w] \in Held => Pending(doc)
(* a task whose marker is the entity's has seen its last commit; *)
SeenIsCurrent ==
  \A w \in Tasks : causes = {} /\ Live /\ Pending(doc) /\ seen[w].marker = doc.marker
                     => seen[w] = doc
(* an entity without a marker has its vectors; *)
Settled == Calm /\ ~Pending(doc) => Follows
(* what a task is about to clear, it has written; *)
ClearsWritten ==
  \A w \in Tasks : Calm /\ lease.holder = w /\ pc[w] = "clear" /\ seen[w].marker = doc.marker
                     => Follows
(* what it is about to insert is not there yet; *)
InsertsAnew ==
  \A w \in Tasks : Calm /\ lease.holder = w /\ pc[w] = "insert" /\ seen[w].marker = doc.marker
                     => vectors = NoVectors
(* and what it is about to patch has the contents of the entity. *)
Patches(w) ==
  plan[w].by = "call" /\ ~plan[w].full /\ plan[w].marker = doc.marker /\ Pending(doc)
PatchesSame ==
  \A w \in Tasks : Calm /\ Patches(w) =>
    /\ vectors.content \in {doc.content, "none"}
    /\ \A v \in Tasks : lease.holder = v /\ pc[v] \in HasRead => seen[v].marker = doc.marker

Inv ==
  /\ Clean /\ Deleted /\ HolderIsPending /\ SeenIsCurrent
  /\ Settled /\ ClearsWritten /\ InsertsAnew /\ PatchesSame

LEMMA InitInv == Init => Inv
<1> SUFFICES ASSUME Init PROVE Inv
  OBVIOUS
<1>1. ~Live /\ Clean /\ Deleted
  BY DEF Init, Unborn, Live, Clean, Deleted
<1> QED BY <1>1 DEF Inv, HolderIsPending, SeenIsCurrent, Settled, ClearsWritten, InsertsAnew,
           PatchesSame, Calm

LEMMA MarkIsNew ==
  ASSUME Marks, NEW v \in Tasks
  PROVE  /\ seen'[v].marker # doc'.marker
         /\ plan'[v] = plan[v] => plan'[v].marker # doc'.marker
BY DEF Marks

LEMMA CalmStep ==
  ASSUME TypeInv, [Next]_vars, Calm'
  PROVE  Marks \/ (Calm /\ (doc' = doc \/ \E w \in Tasks : Settles(w)))
<1>1. causes' = {} /\ Live' /\ NoDanger'
  BY DEF Calm
<1>2. causes = {}
  BY <1>1, CausesStay
<1>3. doc' = doc \/ Marks \/ \E w \in Tasks : Settles(w)
  BY <1>1, DocStep
<1>4. NoDanger \/ Marks
  BY <1>1, DangerStep
<1>5. doc' = doc => Live
  BY <1>1 DEF Live
<1>6. (\E w \in Tasks : Settles(w)) => Live
  BY DEF Settles
<1> QED BY <1>2, <1>3, <1>4, <1>5, <1>6 DEF Calm

LEMMA HeldWrites ==
  ASSUME TypeInv, Deleted, [Next]_vars, Calm', Calm
  PROVE  vectors' = vectors \/ \E w \in Tasks : Writes(w) /\ lease.holder = w
<1>1. ~VectorsGo
  BY DEF VectorsGo, Deleted, Calm, Live, Gone
<1>2. ASSUME NEW w \in Tasks, Writes(w) PROVE lease.holder = w
  <2>1. pc'[w] \in Unmarked /\ lease' = lease
    BY <1>2 DEF Writes, Unmarked, Writing
  <2> QED BY <2>1 DEF Calm, NoDanger
<1> QED BY <1>1, <1>2, VectorsStep

LEMMA HolderIsPendingStep ==
  ASSUME TypeInv, HolderIsPending, [Next]_vars
  PROVE  HolderIsPending'
<1> SUFFICES ASSUME NEW w \in Tasks, causes' = {}, Live', lease'.holder = w, pc'[w] \in Held
             PROVE  Pending(doc')
  BY DEF HolderIsPending
<1>1. causes = {} /\ lease.holder = w /\ Advances(w)
  BY CausesStay, HolderStep
<1>2. CASE Marks
  BY <1>2 DEF Marks
<1>3. CASE doc' = doc
  <2>1. Live
    BY <1>3 DEF Live
  <2>2. pc[w] \in Held \/ Pending(doc) \/ Marks
    BY <1>1 DEF Advances, Writes, Writing, Held, HasRead
  <2>3. pc[w] \in Held => Pending(doc)
    BY <1>1, <2>1 DEF HolderIsPending
  <2> QED BY <1>2, <1>3, <2>2, <2>3 DEF Pending
<1>4. ASSUME NEW u \in Tasks, Settles(u) PROVE FALSE
  <2>1. u = w
    BY <1>1, <1>4 DEF Settles
  <2> QED BY <1>4, <2>1 DEF Settles, Held, HasRead
<1> QED BY <1>2, <1>3, <1>4, DocStep

LEMMA SeenIsCurrentStep ==
  ASSUME TypeInv, SeenIsCurrent, [Next]_vars
  PROVE  SeenIsCurrent'
<1> SUFFICES ASSUME NEW w \in Tasks, causes' = {}, Live', Pending(doc'),
                    seen'[w].marker = doc'.marker
             PROVE  seen'[w] = doc'
  BY DEF SeenIsCurrent
<1>1. causes = {}
  BY CausesStay
<1>2. ~Marks
  BY MarkIsNew
<1>3. ~\E u \in Tasks : Settles(u)
  <2>1. ASSUME NEW u \in Tasks, Settles(u) PROVE FALSE
    <3>1. doc \in Docs /\ doc' = [doc EXCEPT !.marker = Unset]
      BY <2>1, LiveIsTyped DEF Settles, TypeInv, TypeOK, DocOK
    <3> QED BY <3>1 DEF Docs, Pending
  <2> QED BY <2>1
<1>4. doc' = doc /\ Live
  BY <1>2, <1>3, DocStep DEF Live
<1>5. CASE seen'[w] = seen[w]
  BY <1>1, <1>4, <1>5 DEF SeenIsCurrent, Pending
<1>6. CASE seen'[w] = NoDoc
  BY <1>6 DEF NoDoc, Pending
<1>7. CASE seen'[w] = doc
  BY <1>4, <1>7
<1> QED BY <1>5, <1>6, <1>7, SeenStep

LEMMA SettledStep ==
  ASSUME TypeInv, Inv, [Next]_vars
  PROVE  Settled'
<1> SUFFICES ASSUME Calm', ~Pending(doc') PROVE Follows'
  BY DEF Settled
<1>1. Calm /\ (doc' = doc \/ \E w \in Tasks : Settles(w))
  BY CalmStep DEF Marks
<1>2. CASE doc' = doc
  <2>1. ~Pending(doc) /\ Follows
    BY <1>1, <1>2 DEF Inv, Settled, Pending
  <2>2. ASSUME NEW w \in Tasks, Writes(w), lease.holder = w PROVE FALSE
    BY <1>1, <2>1, <2>2 DEF Inv, HolderIsPending, Calm, Writes, Writing, Held, HasRead
  <2>3. vectors' = vectors
    BY <1>1, <2>2, HeldWrites DEF Inv
  <2> QED BY <1>2, <2>1, <2>3 DEF Follows
<1>3. ASSUME NEW w \in Tasks, Settles(w) PROVE Follows'
  <2>1. Follows
    BY <1>1, <1>3 DEF Inv, ClearsWritten, Settles
  <2>2. doc \in Docs
    BY <1>3, LiveIsTyped DEF Settles, TypeInv, TypeOK, DocOK
  <2> QED BY <1>3, <2>1, <2>2 DEF Settles, Follows, Docs
<1> QED BY <1>1, <1>2, <1>3

(* A task that keeps the lease and the entity's marker has seen the entity. *)
LEMMA HolderStays ==
  ASSUME TypeInv, Inv, [Next]_vars, Calm', NEW w \in Tasks, lease'.holder = w,
         pc'[w] \in Held, seen'[w].marker = doc'.marker
  PROVE  /\ Calm /\ doc' = doc /\ lease.holder = w /\ Advances(w)
         /\ Pending(doc)
<1>1. Pending(doc')
  BY HolderIsPendingStep DEF Inv, HolderIsPending, Calm
<1>2. ~Marks
  BY MarkIsNew
<1>3. ~\E u \in Tasks : Settles(u)
  <2>1. ASSUME NEW u \in Tasks, Settles(u) PROVE FALSE
    <3>1. doc \in Docs /\ doc' = [doc EXCEPT !.marker = Unset]
      BY <2>1, LiveIsTyped DEF Settles, TypeInv, TypeOK, DocOK
    <3> QED BY <1>1, <3>1 DEF Docs, Pending
  <2> QED BY <2>1
<1>4. Calm /\ doc' = doc
  BY <1>2, <1>3, CalmStep
<1>5. lease.holder = w /\ Advances(w)
  BY HolderStep DEF Calm
<1> QED BY <1>1, <1>4, <1>5 DEF Pending

LEMMA InsertsAnewStep ==
  ASSUME TypeInv, Inv, [Next]_vars
  PROVE  InsertsAnew'
<1> SUFFICES ASSUME NEW w \in Tasks, Calm', lease'.holder = w, pc'[w] = "insert",
                    seen'[w].marker = doc'.marker
             PROVE  vectors' = NoVectors
  BY DEF InsertsAnew
<1>1. Calm /\ doc' = doc /\ lease.holder = w /\ Advances(w)
  BY HolderStays DEF Held, HasRead
<1>2. CASE Writes(w)
  BY <1>2 DEF Writes
<1>3. CASE ~Writes(w)
  <2>1. pc[w] = "insert" /\ seen'[w] = seen[w]
    BY <1>1, <1>3 DEF Advances
  <2>2. vectors = NoVectors
    BY <1>1, <2>1 DEF Inv, InsertsAnew
  <2>3. vectors' = vectors
    BY <1>1, <1>3, HeldWrites DEF Inv
  <2> QED BY <2>2, <2>3
<1> QED BY <1>2, <1>3

LEMMA ClearsWrittenStep ==
  ASSUME TypeInv, Inv, [Next]_vars
  PROVE  ClearsWritten'
<1> SUFFICES ASSUME NEW w \in Tasks, Calm', lease'.holder = w, pc'[w] = "clear",
                    seen'[w].marker = doc'.marker
             PROVE  Follows'
  BY DEF ClearsWritten
<1>1. Calm /\ doc' = doc /\ lease.holder = w /\ Advances(w) /\ Pending(doc)
  BY HolderStays DEF Held, HasRead
<1>2. seen'[w] = seen[w] => seen[w] = doc
  BY <1>1 DEF Inv, SeenIsCurrent, Calm
<1>3. CASE Writes(w) /\ pc[w] = "insert"
  <2>1. vectors = NoVectors /\ seen[w] = doc
    BY <1>1, <1>2, <1>3 DEF Inv, InsertsAnew, Writes
  <2> QED BY <1>1, <1>3, <2>1 DEF Writes, Follows
<1>4. CASE Writes(w) /\ pc[w] = "write"
  <2>1. /\ vectors # NoVectors /\ ~Full(w) /\ seen[w] = doc
        /\ vectors' = [vectors EXCEPT !.enabled = seen[w].enabled]
    BY <1>2, <1>4 DEF Writes
  <2>2. Patches(w)
    BY <1>1, <2>1 DEF Full, Patches
  <2>3. vectors.content \in {doc.content, "none"}
    BY <1>1, <2>2 DEF Inv, PatchesSame
  <2>4. vectors \in [content : Contents \cup {"mixed"}, enabled : Enabled]
    BY <2>1 DEF TypeInv, TypeOK, VectorSets
  <2>5. vectors.content # "none"
    BY <2>4, ContentsAssumption
  <2> QED BY <1>1, <2>1, <2>3, <2>4, <2>5 DEF Follows
<1>5. CASE ~Writes(w)
  <2>1. CASE pc[w] = "clear" /\ seen'[w] = seen[w]
    <3>1. Follows
      BY <1>1, <2>1 DEF Inv, ClearsWritten
    <3>2. vectors' = vectors
      BY <1>1, <1>5, HeldWrites DEF Inv
    <3> QED BY <1>1, <3>1, <3>2 DEF Follows
  <2>2. CASE seen'[w] = seen[w] /\ ~(Live /\ doc.content = seen[w].content)
    BY <1>1, <1>2, <2>2 DEF Calm
  <2> QED BY <1>1, <1>5, <2>1, <2>2 DEF Advances
<1> QED BY <1>3, <1>4, <1>5 DEF Writes, Writing

LEMMA PatchesSameStep ==
  ASSUME TypeInv, Inv, [Next]_vars
  PROVE  PatchesSame'
<1> SUFFICES ASSUME NEW w \in Tasks, Calm', Patches(w)'
             PROVE  /\ vectors'.content \in {doc'.content, "none"}
                    /\ \A v \in Tasks : lease'.holder = v /\ pc'[v] \in HasRead
                                          => seen'[v].marker = doc'.marker
  BY DEF PatchesSame
<1>1. ~\E u \in Tasks : Settles(u)
  <2>1. ASSUME NEW u \in Tasks, Settles(u) PROVE FALSE
    <3>1. doc \in Docs /\ doc' = [doc EXCEPT !.marker = Unset]
      BY <2>1, LiveIsTyped DEF Settles, TypeInv, TypeOK, DocOK
    <3> QED BY <3>1 DEF Docs, Patches, Pending
  <2> QED BY <2>1
<1>2. CASE Marks
  <2>1. plan'[w] # plan[w]
    BY <1>2, MarkIsNew DEF Patches
  <2>2. Planned(w) /\ ~plan'[w].full
    BY <2>1, PlanStep DEF Patches, Calm
  <2>3. /\ pc[w] = Idle /\ pc' = [pc EXCEPT ![w] = "claim"] /\ lease' = lease /\ vectors' = vectors
        /\ Live /\ ~Pending(doc) /\ doc'.content = doc.content
    BY <2>2 DEF Planned
  <2>4. "claim" \in States /\ Idle \notin Unmarked
    BY DEF States, Idle, Unmarked, Writing
  <2>5. NoDanger
    BY <2>3, <2>4, DangerStays DEF Calm
  <2>6. Calm
    BY <2>3, <2>5, CausesStay DEF Calm
  <2>7. vectors'.content = doc'.content
    BY <2>3, <2>6 DEF Inv, Settled, Follows
  <2>8. ASSUME NEW v \in Tasks, lease'.holder = v, pc'[v] \in HasRead PROVE FALSE
    <3>1. pc[v] \in Held /\ lease.holder = v
      BY <2>3, <2>8 DEF Held, HasRead, TypeInv, TypeOK
    <3> QED BY <2>3, <2>6, <3>1 DEF Inv, HolderIsPending, Calm
  <2> QED BY <2>7, <2>8
<1>3. CASE Calm /\ doc' = doc
  <2>1. plan'[w] = plan[w] => Patches(w)
    BY <1>3 DEF Patches
  <2>2. CASE plan'[w] # plan[w]
    <3>1. Planned(w) /\ ~plan'[w].full
      BY <2>2, PlanStep DEF Patches, Calm
    <3> QED BY <1>3, <3>1 DEF Planned, Patches, Pending
  <2>3. CASE Patches(w)
    <3>1. /\ vectors.content \in {doc.content, "none"}
          /\ \A v \in Tasks : lease.holder = v /\ pc[v] \in HasRead => seen[v].marker = doc.marker
      BY <1>3, <2>3 DEF Inv, PatchesSame
    <3>2. ASSUME NEW u \in Tasks, Writes(u), lease.holder = u
          PROVE  vectors'.content \in {doc.content, "none"}
      <4>1. seen[u].marker = doc.marker
        BY <3>1, <3>2 DEF Writes, Writing, HasRead
      <4>2. seen[u] = doc
        BY <1>3, <2>3, <4>1 DEF Inv, SeenIsCurrent, Calm, Patches
      <4>3. CASE pc[u] = "write"
        BY <3>1, <3>2, <4>3 DEF Writes, NoVectors, TypeInv, TypeOK, VectorSets
      <4>4. CASE pc[u] = "insert"
        <5>1. vectors = NoVectors
          BY <1>3, <3>2, <4>1, <4>4 DEF Inv, InsertsAnew
        <5> QED BY <3>2, <4>2, <4>4, <5>1 DEF Writes
      <4> QED BY <3>2, <4>3, <4>4 DEF Writes, Writing
    <3>3. vectors'.content \in {doc'.content, "none"}
      BY <1>3, <3>1, <3>2, HeldWrites DEF Inv
    <3>4. ASSUME NEW v \in Tasks, lease'.holder = v, pc'[v] \in HasRead
          PROVE  seen'[v].marker = doc'.marker
      <4>1. lease.holder = v /\ Advances(v)
        BY <3>4, HolderStep DEF Calm, Held
      <4>2. ~Marks
        BY <1>3 DEF Marks
      <4>3. \/ seen'[v] = doc
            \/ seen'[v] = seen[v] /\ pc[v] \in HasRead
        BY <3>4, <4>1, <4>2 DEF Advances, Writes, Writing, Held, HasRead
      <4> QED BY <1>3, <3>1, <4>1, <4>3
    <3> QED BY <3>3, <3>4
  <2> QED BY <2>1, <2>2, <2>3
<1> QED BY <1>1, <1>2, <1>3, CalmStep

LEMMA InvStep ==
  ASSUME TypeInv, Inv, [Next]_vars
  PROVE  Inv'
<1>1. Clean' /\ Deleted' /\ HolderIsPending' /\ SeenIsCurrent'
  BY CleanStep, DeletedStep, HolderIsPendingStep, SeenIsCurrentStep DEF Inv
<1>2. Settled' /\ ClearsWritten' /\ InsertsAnew' /\ PatchesSame'
  BY SettledStep, ClearsWrittenStep, InsertsAnewStep, PatchesSameStep
<1> QED BY <1>1, <1>2 DEF Inv

(* Whatever tasks overtake each other, lose their leases, are cancelled,   *)
(* fail or die, and whatever calls come in between: an entity without a    *)
(* marker has the vectors of its last commit, unless a task that lost its  *)
(* lease is still to mark it, a call saved what it had read before another *)
(* write, a change set no marker, or a task ended after its lease did.     *)
THEOREM VectorsFollow == Spec => []VectorsFollowDocument
<1>1. TypeInv /\ Inv => VectorsFollowDocument
  BY DEF Inv, Settled, VectorsFollowDocument, Calm, NoDanger, Follows, Owns
<1>2. Spec => []Inv
  BY InitInv, InvStep, TypeInvariant, PTL DEF Spec
<1> QED BY <1>1, <1>2, TypeInvariant, PTL

================================================================================
