--------------------------- MODULE SkillSync_proofs ---------------------------
(***************************************************************************)
(* Theorems about SkillSync: its types, that a source has one active job   *)
(* at most and a job one outcome, that lastSync names a sync that          *)
(* succeeded, that a skill stays as long as it is upstream, and, while no  *)
(* fault that "causes" records gets in between, that the source agrees     *)
(* with its job, that no skill is created twice and that none outlives     *)
(* its source.                                                             *)
(***************************************************************************)
EXTENDS SkillSync, TLAPS

Idle == {"idle", "polled"}
Holding == {"begin", "save", "fetch", "apply", "reject", "sweep", "clear", "clearFailed", "undo",
            "record", "bury", "failing", "restore", "failingLate", "restoreLate"}
DeletePcs == {"sweep", "clear", "clearFailed", "undo"}

SourceOK == source \in Sources
JobsOK == jobs \in [Jobs -> JobRecords]
CallOK == call \in [Callers -> Sources \cup {NoCopy}]
RestOK ==
  /\ skills \in [Skills -> Nat]
  /\ causes \subseteq {"overwrite", "overrun", "unrecorded"}
  /\ kept \subseteq Skills
RunnerOK ==
  /\ pc \in [Runners -> States]
  /\ job \in [Runners -> 0..MaxJobs]
  /\ copy \in [Runners -> Sources \cup {NoCopy}]
  /\ plan \in [Runners -> [{"delete", "create", "update"} -> SUBSET Skills]]

LEMMA TypeParts == TypeOK <=> SourceOK /\ JobsOK /\ CallOK /\ RestOK /\ RunnerOK
BY DEF TypeOK, SourceOK, JobsOK, CallOK, RestOK, RunnerOK

(* A runner that works has a job, and a copy of the source once it read it. *)
Equipped ==
  \A r \in Runners : /\ pc[r] \notin Idle => job[r] \in Created
                     /\ pc[r] \in Holding => copy[r] \in Sources
(* Only a job that is held has a token. *)
TokensFit == \A j \in Jobs : jobs[j].token # "nobody" => jobs[j].status = "syncing"
Base == TypeOK /\ Equipped /\ TokensFit

-----------------------------------------------------------------------------
(* The shapes of the writes *)

LEMMA Put ==
  ASSUME NEW S, NEW T, NEW f \in [S -> T], NEW x \in S, NEW v \in T
  PROVE  /\ [f EXCEPT ![x] = v] \in [S -> T] /\ [f EXCEPT ![x] = v][x] = v
         /\ \A y \in S \ {x} : [f EXCEPT ![x] = v][y] = f[y]
OBVIOUS

LEMMA EndedShape ==
  ASSUME JobsOK, NEW j \in Jobs, NEW s \in {"success", "failed"},
         jobs' = Ended(j, s)
  PROVE  /\ jobs' \in [Jobs -> JobRecords]
         /\ jobs'[j].kind = jobs[j].kind /\ jobs'[j].rev = jobs[j].rev
         /\ jobs'[j].attempts = jobs[j].attempts /\ jobs'[j].status = s
         /\ jobs'[j].lease = "none" /\ jobs'[j].token = "nobody"
         /\ \A i \in Jobs \ {j} : jobs'[i] = jobs[i]
<1> DEFINE new == [jobs[j] EXCEPT !.status = s, !.lease = "none", !.token = "nobody"]
<1>1. ASSUME NEW e \in JobRecords
      PROVE  /\ [e EXCEPT !.status = s, !.lease = "none", !.token = "nobody"] \in JobRecords
             /\ [e EXCEPT !.status = s, !.lease = "none", !.token = "nobody"].kind = e.kind
             /\ [e EXCEPT !.status = s, !.lease = "none", !.token = "nobody"].rev = e.rev
             /\ [e EXCEPT !.status = s, !.lease = "none", !.token = "nobody"].attempts = e.attempts
             /\ [e EXCEPT !.status = s, !.lease = "none", !.token = "nobody"].status = s
             /\ [e EXCEPT !.status = s, !.lease = "none", !.token = "nobody"].lease = "none"
             /\ [e EXCEPT !.status = s, !.lease = "none", !.token = "nobody"].token = "nobody"
  BY DEF JobRecords
<1>2. jobs[j] \in JobRecords
  BY DEF JobsOK
<1>3. /\ new \in JobRecords
      /\ new.kind = jobs[j].kind /\ new.rev = jobs[j].rev /\ new.attempts = jobs[j].attempts
      /\ new.status = s /\ new.lease = "none" /\ new.token = "nobody"
  BY <1>1, <1>2, Zenon
<1>4. jobs' = [jobs EXCEPT ![j] = new]
  BY DEF JobsOK, Ended
<1> HIDE DEF new
<1>5. jobs \in [Jobs -> JobRecords] /\ new \in JobRecords
  BY <1>3 DEF JobsOK
<1>6. LET f == [jobs EXCEPT ![j] = new]
      IN  f \in [Jobs -> JobRecords] /\ f[j] = new /\ \A i \in Jobs \ {j} : f[i] = jobs[i]
  BY <1>5, Put
<1> QED BY <1>3, <1>4, <1>6, Zenon

LEMMA ExpiredShape ==
  ASSUME JobsOK, NEW j \in Jobs,
         jobs' = [jobs EXCEPT ![j].lease = "expired"]
  PROVE  /\ jobs' \in [Jobs -> JobRecords]
         /\ jobs'[j].kind = jobs[j].kind /\ jobs'[j].rev = jobs[j].rev
         /\ jobs'[j].attempts = jobs[j].attempts /\ jobs'[j].status = jobs[j].status
         /\ jobs'[j].lease = "expired" /\ jobs'[j].token = jobs[j].token
         /\ \A i \in Jobs \ {j} : jobs'[i] = jobs[i]
<1> DEFINE new == [jobs[j] EXCEPT !.lease = "expired"]
<1>1. ASSUME NEW e \in JobRecords
      PROVE  /\ [e EXCEPT !.lease = "expired"] \in JobRecords
             /\ [e EXCEPT !.lease = "expired"].kind = e.kind
             /\ [e EXCEPT !.lease = "expired"].rev = e.rev
             /\ [e EXCEPT !.lease = "expired"].attempts = e.attempts
             /\ [e EXCEPT !.lease = "expired"].status = e.status
             /\ [e EXCEPT !.lease = "expired"].lease = "expired"
             /\ [e EXCEPT !.lease = "expired"].token = e.token
  BY DEF JobRecords
<1>2. jobs[j] \in JobRecords
  BY DEF JobsOK
<1>3. /\ new \in JobRecords
      /\ new.kind = jobs[j].kind /\ new.rev = jobs[j].rev /\ new.attempts = jobs[j].attempts
      /\ new.status = jobs[j].status /\ new.lease = "expired" /\ new.token = jobs[j].token
  BY <1>1, <1>2, Zenon
<1>4. jobs' = [jobs EXCEPT ![j] = new]
  BY DEF JobsOK
<1> HIDE DEF new
<1>5. jobs \in [Jobs -> JobRecords] /\ new \in JobRecords
  BY <1>3 DEF JobsOK
<1>6. LET f == [jobs EXCEPT ![j] = new]
      IN  f \in [Jobs -> JobRecords] /\ f[j] = new /\ \A i \in Jobs \ {j} : f[i] = jobs[i]
  BY <1>5, Put
<1> QED BY <1>3, <1>4, <1>6, Zenon

LEMMA ClaimedShape ==
  ASSUME JobsOK, NEW j \in Jobs, NEW r \in Runners, NEW n \in 0..MaxAttempts,
         jobs' = [jobs EXCEPT ![j].status = "syncing", ![j].lease = "held", ![j].token = r,
                             ![j].attempts = n]
  PROVE  /\ jobs' \in [Jobs -> JobRecords]
         /\ jobs'[j].kind = jobs[j].kind /\ jobs'[j].rev = jobs[j].rev
         /\ jobs'[j].attempts = n /\ jobs'[j].status = "syncing" /\ jobs'[j].lease = "held"
         /\ jobs'[j].token = r
         /\ \A i \in Jobs \ {j} : jobs'[i] = jobs[i]
<1> DEFINE new == [jobs[j] EXCEPT !.status = "syncing", !.lease = "held", !.token = r, !.attempts = n]
<1>1. ASSUME NEW e \in JobRecords
      PROVE  /\ [e EXCEPT !.status = "syncing", !.lease = "held", !.token = r, !.attempts = n] \in JobRecords
             /\ [e EXCEPT !.status = "syncing", !.lease = "held", !.token = r, !.attempts = n].kind = e.kind
             /\ [e EXCEPT !.status = "syncing", !.lease = "held", !.token = r, !.attempts = n].rev = e.rev
             /\ [e EXCEPT !.status = "syncing", !.lease = "held", !.token = r, !.attempts = n].attempts = n
             /\ [e EXCEPT !.status = "syncing", !.lease = "held", !.token = r, !.attempts = n].status = "syncing"
             /\ [e EXCEPT !.status = "syncing", !.lease = "held", !.token = r, !.attempts = n].lease = "held"
             /\ [e EXCEPT !.status = "syncing", !.lease = "held", !.token = r, !.attempts = n].token = r
  BY DEF JobRecords, Running
<1>2. jobs[j] \in JobRecords
  BY DEF JobsOK
<1>3. /\ new \in JobRecords
      /\ new.kind = jobs[j].kind /\ new.rev = jobs[j].rev /\ new.attempts = n
      /\ new.status = "syncing" /\ new.lease = "held" /\ new.token = r
  BY <1>1, <1>2, Zenon
<1>4. jobs' = [jobs EXCEPT ![j] = new]
  BY DEF JobsOK
<1> HIDE DEF new
<1>5. jobs \in [Jobs -> JobRecords] /\ new \in JobRecords
  BY <1>3 DEF JobsOK
<1>6. LET f == [jobs EXCEPT ![j] = new]
      IN  f \in [Jobs -> JobRecords] /\ f[j] = new /\ \A i \in Jobs \ {j} : f[i] = jobs[i]
  BY <1>5, Put
<1> QED BY <1>3, <1>4, <1>6, Zenon

LEMMA SavedShape ==
  ASSUME NEW s \in Sources, NEW j \in 0..MaxJobs
  PROVE  /\ \A v \in 1..MaxRev : [s EXCEPT !.rev = v] \in Sources /\ [s EXCEPT !.rev = v].last = s.last
         /\ \A v \in Running \cup {"failed"} :
              [s EXCEPT !.sync = v] \in Sources /\ [s EXCEPT !.sync = v].last = s.last
         /\ \A v \in {"active", "deleting"} :
              LET new == [s EXCEPT !.sync = "pending", !.status = v]
              IN  new \in Sources /\ new.last = s.last
         /\ LET new == [s EXCEPT !.sync = "success", !.last = j] IN new \in Sources /\ new.last = j
         /\ LET new == [s EXCEPT !.sync = "failed", !.last = j] IN new \in Sources /\ new.last = j
         /\ LET new == [s EXCEPT !.status = "active", !.sync = "failed"]
            IN  new \in Sources /\ new.last = s.last
         /\ LET new == [s EXCEPT !.status = "deleted", !.sync = "success", !.last = j]
            IN  new \in Sources /\ new.last = j
         /\ LET new == [s EXCEPT !.status = "active", !.sync = "failed", !.last = j]
            IN  new \in Sources /\ new.last = j
<1>1. ASSUME NEW v \in 1..MaxRev
      PROVE  [s EXCEPT !.rev = v] \in Sources /\ [s EXCEPT !.rev = v].last = s.last
  BY DEF Sources
<1>2. ASSUME NEW v \in Running \cup {"failed"}
      PROVE  [s EXCEPT !.sync = v] \in Sources /\ [s EXCEPT !.sync = v].last = s.last
  BY DEF Sources
<1>3. ASSUME NEW v \in {"active", "deleting"}
      PROVE  /\ [s EXCEPT !.sync = "pending", !.status = v] \in Sources
             /\ [s EXCEPT !.sync = "pending", !.status = v].last = s.last
  BY DEF Sources, Running
<1>4. /\ [s EXCEPT !.sync = "success", !.last = j] \in Sources
      /\ [s EXCEPT !.sync = "success", !.last = j].last = j
  BY DEF Sources
<1>5. /\ [s EXCEPT !.sync = "failed", !.last = j] \in Sources
      /\ [s EXCEPT !.sync = "failed", !.last = j].last = j
  BY DEF Sources
<1>6. /\ [s EXCEPT !.status = "active", !.sync = "failed"] \in Sources
      /\ [s EXCEPT !.status = "active", !.sync = "failed"].last = s.last
  BY DEF Sources
<1>7. /\ [s EXCEPT !.status = "deleted", !.sync = "success", !.last = j] \in Sources
      /\ [s EXCEPT !.status = "deleted", !.sync = "success", !.last = j].last = j
  BY DEF Sources
<1>8. /\ [s EXCEPT !.status = "active", !.sync = "failed", !.last = j] \in Sources
      /\ [s EXCEPT !.status = "active", !.sync = "failed", !.last = j].last = j
  BY DEF Sources
<1> QED BY <1>1, <1>2, <1>3, <1>4, <1>5, <1>6, <1>7, <1>8, Zenon

(* A runner that goes on, or has nothing more to do. *)
LEMMA GotoShape ==
  ASSUME RunnerOK, NEW r \in Runners, NEW s \in States, Goto(r, s)
  PROVE  /\ RunnerOK' /\ pc'[r] = s /\ job' = job /\ copy' = copy /\ plan' = plan
         /\ \A v \in Runners \ {r} : pc'[v] = pc[v]
BY DEF RunnerOK, Goto

LEMMA StopShape ==
  ASSUME RunnerOK, NEW r \in Runners, Stop(r)
  PROVE  /\ RunnerOK' /\ pc'[r] = "idle" /\ copy'[r] = NoCopy /\ plan'[r] = NoPlan
         /\ \A v \in Runners \ {r} : /\ pc'[v] = pc[v] /\ job'[v] = job[v] /\ copy'[v] = copy[v]
                                     /\ plan'[v] = plan[v]
<1>1. 0 \in 0..MaxJobs
  BY BoundsAssumption
<1>2. NoPlan \in [{"delete", "create", "update"} -> SUBSET Skills]
  BY DEF NoPlan
<1>3. "idle" \in States
  BY DEF States
<1> QED BY <1>1, <1>2, <1>3 DEF RunnerOK, Stop

LEMMA LeaveShape ==
  ASSUME RunnerOK, NEW r \in Runners, Leave(r)
  PROVE  /\ RunnerOK' /\ pc'[r] \in Idle /\ copy'[r] = NoCopy
         /\ \A v \in Runners \ {r} : /\ pc'[v] = pc[v] /\ job'[v] = job[v] /\ copy'[v] = copy[v]
                                     /\ plan'[v] = plan[v]
<1>1. CASE Stop(r)
  BY <1>1, StopShape DEF Idle
<1>2. CASE ~Stop(r)
  <2>1. 0 \in 0..MaxJobs /\ "polled" \in States
    BY BoundsAssumption DEF States
  <2> QED BY <1>2, <2>1 DEF RunnerOK, Leave, Idle
<1> QED BY <1>1, <1>2

-----------------------------------------------------------------------------
(* What a step does to each job *)

(* The first job of a source that has none going on. *)
Born(j) == j \notin Created /\ NoActiveJob /\ \A i \in Jobs : i < j <=> i \in Created

JobStep(j) ==
  /\ j \in Created => j \in Created' /\ jobs'[j].kind = jobs[j].kind
  /\ jobs[j].status \in {"success", "failed"} => jobs'[j] = jobs[j]
  /\ Active(j)' => Active(j) \/ Born(j)
  /\ jobs'[j].token # "nobody" => jobs'[j].status = "syncing"
JobsFit == JobsOK' /\ \A j \in Jobs : JobStep(j)

LEMMA JobsSame ==
  ASSUME Base, jobs' = jobs
  PROVE  JobsFit
BY DEF Base, TypeOK, TokensFit, JobsFit, JobStep, JobsOK, Created, Active

(* One job changes: what has to be shown of it. *)
LEMMA OneJobStep ==
  ASSUME Base, JobsOK', NEW j \in Jobs, \A i \in Jobs \ {j} : jobs'[i] = jobs[i],
         jobs[j].status \notin {"success", "failed"},
         jobs'[j].status # "unborn",
         (Active(j) /\ jobs'[j].kind = jobs[j].kind) \/ Born(j),
         jobs'[j].token # "nobody" => jobs'[j].status = "syncing"
  PROVE  JobsFit
<1>1. JobStep(j)
  BY DEF JobStep, Created, Active, Running, Born
<1>2. ASSUME NEW i \in Jobs \ {j} PROVE JobStep(i)
  BY <1>2 DEF Base, TokensFit, JobStep, Created, Active
<1> QED BY <1>1, <1>2 DEF JobsFit

LEMMA OwnedJob ==
  ASSUME Base, NEW r \in Runners, pc[r] \notin Idle, Owns(r)
  PROVE  job[r] \in Jobs /\ jobs[job[r]].status = "syncing"
<1>1. job[r] \in Jobs
  BY DEF Base, Equipped, Created
<1>2. jobs[job[r]].token = r /\ r # "nobody"
  BY NobodyAssumption DEF Owns
<1> QED BY <1>1, <1>2 DEF Base, TokensFit

LEMMA EndedFit ==
  ASSUME Base, NEW j \in Jobs, Active(j), NEW s \in {"success", "failed"}, jobs' = Ended(j, s)
  PROVE  JobsFit /\ jobs'[j].status = s
<1>1. JobsOK
  BY DEF Base, TypeOK, JobsOK
<1>2. /\ JobsOK' /\ jobs'[j].kind = jobs[j].kind /\ jobs'[j].status = s /\ jobs'[j].token = "nobody"
      /\ \A i \in Jobs \ {j} : jobs'[i] = jobs[i]
  BY <1>1, EndedShape DEF JobsOK
<1>3. jobs[j].status \notin {"success", "failed"} /\ s # "unborn"
  BY DEF Active, Running
<1> QED BY <1>2, <1>3, OneJobStep

LEMMA FinalizeFits ==
  ASSUME Base, NEW r \in Runners, pc[r] \notin Idle, NEW s \in {"success", "failed"}, NEW state,
         Finalize(r, s, state)
  PROVE  JobsFit
<1>1. CASE Owns(r)
  <2>1. job[r] \in Jobs /\ Active(job[r])
    BY <1>1, OwnedJob DEF Active, Running
  <2> QED BY <1>1, <2>1, EndedFit DEF Finalize
<1>2. CASE ~Owns(r)
  BY <1>2, JobsSame DEF Finalize
<1> QED BY <1>1, <1>2

LEMMA ExpiredFits ==
  ASSUME Base, NEW r \in Runners, pc[r] \notin Idle, Owns(r),
         jobs' = [jobs EXCEPT ![job[r]].lease = "expired"]
  PROVE  JobsFit
<1>1. JobsOK
  BY DEF Base, TypeOK, JobsOK
<1>2. job[r] \in Jobs /\ jobs[job[r]].status = "syncing"
  BY OwnedJob
<1>3. /\ JobsOK' /\ jobs'[job[r]].kind = jobs[job[r]].kind /\ jobs'[job[r]].status = "syncing"
      /\ \A i \in Jobs \ {job[r]} : jobs'[i] = jobs[i]
  BY <1>1, <1>2, ExpiredShape DEF JobsOK
<1> QED BY <1>2, <1>3, OneJobStep DEF Active, Running

LEMMA ClaimFits ==
  ASSUME Base, NEW r \in Runners, Claim(r)
  PROVE  JobsFit
<1>1. CASE UNCHANGED jobs
  BY <1>1, JobsSame
<1>2. ASSUME NEW j \in Jobs, Claimable(j),
             jobs' = [jobs EXCEPT ![j].status = "syncing", ![j].lease = "held", ![j].token = r,
                                  ![j].attempts = @ + 1]
      PROVE  JobsFit
  <2>1. JobsOK /\ jobs[j].attempts \in 0..MaxAttempts
    BY DEF Base, TypeOK, JobsOK, JobRecords
  <2>2. jobs[j].attempts + 1 \in 0..MaxAttempts
    BY <1>2, <2>1, BoundsAssumption DEF Claimable
  <2>3. jobs' = [jobs EXCEPT ![j].status = "syncing", ![j].lease = "held", ![j].token = r,
                             ![j].attempts = jobs[j].attempts + 1]
    BY <1>2, <2>1 DEF JobsOK, JobRecords
  <2>4. /\ JobsOK' /\ jobs'[j].kind = jobs[j].kind /\ jobs'[j].status = "syncing"
        /\ \A i \in Jobs \ {j} : jobs'[i] = jobs[i]
    BY <2>1, <2>2, <2>3, ClaimedShape DEF JobsOK
  <2>5. Active(j) /\ jobs[j].status \notin {"success", "failed"}
    BY <1>2 DEF Claimable, Active, Running
  <2> QED BY <2>4, <2>5, OneJobStep
<1> QED BY <1>1, <1>2 DEF Claim

LEMMA SubmitFits ==
  ASSUME Base, NEW c \in Callers, NEW kind \in {"sync", "delete"}, Submit(c, kind)
  PROVE  JobsFit
<1> DEFINE new == [UnbornJob EXCEPT !.kind = kind, !.rev = call[c].rev, !.status = "pending"]
<1>1. PICK j \in Jobs : (\A i \in Jobs : i < j <=> i \in Created) /\ jobs' = [jobs EXCEPT ![j] = new]
  BY DEF Submit
<1>2. call[c] \in Sources
  BY DEF Submit, Base, TypeOK, NoCopy
<1>3. new \in JobRecords /\ new.status = "pending" /\ new.token = "nobody"
  <2>1. call[c].rev \in 1..MaxRev /\ 0 \in 0..MaxAttempts
    BY <1>2, BoundsAssumption DEF Sources
  <2> QED BY <2>1 DEF UnbornJob, JobRecords, Running
<1>4. jobs \in [Jobs -> JobRecords]
  BY DEF Base, TypeOK
<1> HIDE DEF new
<1>5. JobsOK' /\ jobs'[j] = new /\ \A i \in Jobs \ {j} : jobs'[i] = jobs[i]
  BY <1>1, <1>3, <1>4, Put DEF JobsOK
<1>6. j \notin Created /\ NoActiveJob
  BY <1>1 DEF Submit, Jobs
<1>7. Born(j) /\ jobs[j].status = "unborn"
  BY <1>1, <1>6 DEF Born, Created
<1> QED BY <1>3, <1>5, <1>7, OneJobStep

LEMMA JobsStep ==
  ASSUME Base, [Next]_vars
  PROVE  JobsFit
<1>1. ASSUME NEW c \in Callers, Read(c) PROVE JobsFit
  BY <1>1, JobsSame DEF Read
<1>2. ASSUME NEW c \in Callers, Refuse(c) PROVE JobsFit
  BY <1>2, JobsSame DEF Refuse
<1>3. ASSUME NEW c \in Callers, NEW rev \in 1..MaxRev, NEW sync \in BOOLEAN, Edit(c, rev, sync)
       PROVE  JobsFit
  BY <1>3, JobsSame DEF Edit
<1>4. ASSUME NEW c \in Callers, NEW kind \in {"sync", "delete"}, Submit(c, kind) PROVE JobsFit
  BY <1>4, SubmitFits
<1>5. ASSUME NEW r \in Runners, BeforePoll(r) PROVE JobsFit
  <2>1. CASE UNCHANGED jobs
    BY <2>1, JobsSame
  <2>2. CASE ~UNCHANGED jobs
    BY <1>5, <2>2, EndedFit DEF BeforePoll, Exhausted
  <2> QED BY <2>1, <2>2
<1>6. ASSUME NEW r \in Runners, Claim(r) PROVE JobsFit
  BY <1>6, ClaimFits
<1>7. ASSUME NEW r \in Runners, Recover(r) PROVE JobsFit
  BY <1>7, JobsSame DEF Recover
<1>8. ASSUME NEW r \in Runners, Load(r) PROVE JobsFit
  BY <1>8, JobsSame DEF Load
<1>9. ASSUME NEW r \in Runners, Begin(r) PROVE JobsFit
  BY <1>9, JobsSame DEF Begin, Advance
<1>10. ASSUME NEW r \in Runners, SaveSyncing(r) PROVE JobsFit
  BY <1>10, JobsSame DEF SaveSyncing
<1>11. ASSUME NEW r \in Runners, Fetch(r) PROVE JobsFit
  BY <1>11, JobsSame DEF Fetch, Advance
<1>12. ASSUME NEW r \in Runners, NEW op \in {"delete", "create", "update"},
             NEW k \in Skills, ApplySkill(r, op, k)
       PROVE  JobsFit
  BY <1>12, JobsSame DEF ApplySkill
<1>13. ASSUME NEW r \in Runners, Finish(r) PROVE JobsFit
  BY <1>13, FinalizeFits DEF Finish, Idle
<1>14. ASSUME NEW r \in Runners, Reject(r) PROVE JobsFit
  BY <1>14, FinalizeFits DEF Reject, Idle
<1>15. ASSUME NEW r \in Runners, Orphan(r) PROVE JobsFit
  BY <1>15, FinalizeFits DEF Orphan, Idle
<1>16. ASSUME NEW r \in Runners, Sweep(r) PROVE JobsFit
  BY <1>16, JobsSame DEF Sweep
<1>17. ASSUME NEW r \in Runners, NEW k \in Skills, ClearSkill(r, k) PROVE JobsFit
  BY <1>17, JobsSame DEF ClearSkill
<1>18. ASSUME NEW r \in Runners, FinishDelete(r) PROVE JobsFit
  BY <1>18, FinalizeFits DEF FinishDelete, Cleared, Idle
<1>19. ASSUME NEW r \in Runners, GiveUp(r) PROVE JobsFit
  BY <1>19, JobsSame DEF GiveUp
<1>20. ASSUME NEW r \in Runners, Undo(r) PROVE JobsFit
  BY <1>20, FinalizeFits DEF Undo, Idle
<1>21. ASSUME NEW r \in Runners, Record(r) PROVE JobsFit
  BY <1>21, JobsSame DEF Record, EndWith
<1>22. ASSUME NEW r \in Runners, Bury(r) PROVE JobsFit
  BY <1>22, JobsSame DEF Bury, EndWith
<1>23. ASSUME NEW r \in Runners, MarkFailed(r) PROVE JobsFit
  BY <1>23, JobsSame DEF MarkFailed, EndWith
<1>24. ASSUME NEW r \in Runners, Restore(r) PROVE JobsFit
  BY <1>24, JobsSame DEF Restore, EndWith
<1>25. ASSUME NEW r \in Runners, Crash(r) PROVE JobsFit
  <2>1. pc[r] \notin Idle
    BY <1>25 DEF Crash, Executing, Ending, Recovering, Idle
  <2> QED BY <1>25, <2>1, JobsSame, ExpiredFits DEF Crash
<1>26. ASSUME NEW r \in Runners, LeaseLost(r) PROVE JobsFit
  BY <1>26, JobsSame DEF LeaseLost
<1>27. ASSUME NEW r \in Runners, Stall(r) PROVE JobsFit
  <2>1. pc[r] \notin Idle
    BY <1>27 DEF Stall, Executing, Idle
  <2> QED BY <1>27, <2>1, ExpiredFits DEF Stall
<1>28. CASE UNCHANGED vars
  BY <1>28, JobsSame DEF vars
<1>. QED
  BY <1>1, <1>2, <1>3, <1>4, <1>5, <1>6, <1>7, <1>8, <1>9, <1>10, <1>11, <1>12, <1>13,
     <1>14, <1>15, <1>16, <1>17, <1>18, <1>19, <1>20, <1>21, <1>22, <1>23, <1>24, <1>25,
     <1>26, <1>27, <1>28 DEF Next, Call, Work, Fault

-----------------------------------------------------------------------------
(* What a step does to each runner *)

RunnerStep(r) ==
  /\ pc'[r] \notin Idle => job'[r] \in Created
  /\ pc'[r] \in Holding => copy'[r] \in Sources
  /\ copy'[r] \in Sources =>
       copy'[r] = source \/ (copy[r] \in Sources /\ copy'[r].last = copy[r].last)
  /\ pc'[r] \in {"record", "bury"} =>
       job'[r] = job[r] /\ (pc'[r] = pc[r] \/ jobs'[job[r]].status = "success")
  /\ pc'[r] \in DeletePcs =>
       job'[r] = job[r] /\ (pc[r] \in DeletePcs \/ jobs[job[r]].kind = "delete")
  /\ pc'[r] = "apply" =>
       \/ plan'[r]["delete"] \cap kept = {}
       \/ pc[r] = "apply" /\ plan'[r]["delete"] \subseteq plan[r]["delete"]
Others(r) ==
  \A v \in Runners \ {r} : /\ pc'[v] = pc[v] /\ job'[v] = job[v]
                           /\ copy'[v] = copy[v] /\ plan'[v] = plan[v]
RunnersFit == RunnerOK' /\ \A r \in Runners : RunnerStep(r)

LEMMA RunnersSame ==
  ASSUME Base, UNCHANGED runner
  PROVE  RunnersFit
<1>1. RunnerOK'
  BY DEF Base, TypeOK, RunnerOK, runner
<1>2. ASSUME NEW r \in Runners PROVE RunnerStep(r)
  <2>1. pc'[r] = pc[r] /\ job'[r] = job[r] /\ copy'[r] = copy[r] /\ plan'[r] = plan[r]
    BY DEF runner
  <2> QED BY <2>1 DEF Base, Equipped, RunnerStep
<1> QED BY <1>1, <1>2 DEF RunnersFit

(* One runner moves: what has to be shown of it. *)
LEMMA OneRunnerStep ==
  ASSUME Base, NEW r \in Runners, RunnerOK', Others(r), RunnerStep(r)
  PROVE  RunnersFit
<1>1. ASSUME NEW v \in Runners \ {r} PROVE RunnerStep(v)
  <2>1. pc'[v] = pc[v] /\ job'[v] = job[v] /\ copy'[v] = copy[v] /\ plan'[v] = plan[v]
    BY DEF Others
  <2> QED BY <2>1 DEF Base, Equipped, RunnerStep
<1> QED BY <1>1 DEF RunnersFit

LEMMA NoCopyIsNone == NoCopy \notin Sources
BY DEF NoCopy, Sources

LEMMA StopFits ==
  ASSUME Base, NEW r \in Runners, Stop(r)
  PROVE  RunnersFit
<1>1. RunnerOK
  BY DEF Base, TypeOK, RunnerOK
<1>2. /\ RunnerOK' /\ pc'[r] = "idle" /\ copy'[r] = NoCopy /\ Others(r)
  BY <1>1, StopShape DEF Others
<1>3. RunnerStep(r)
  BY <1>2, NoCopyIsNone DEF RunnerStep, Idle, Holding, DeletePcs
<1> QED BY <1>2, <1>3, OneRunnerStep

LEMMA LeaveFits ==
  ASSUME Base, NEW r \in Runners, Leave(r)
  PROVE  RunnersFit
<1>1. RunnerOK
  BY DEF Base, TypeOK, RunnerOK
<1>2. /\ RunnerOK' /\ pc'[r] \in Idle /\ copy'[r] = NoCopy /\ Others(r)
  BY <1>1, LeaveShape DEF Others
<1>3. RunnerStep(r)
  BY <1>2, NoCopyIsNone DEF RunnerStep, Idle, Holding, DeletePcs
<1> QED BY <1>2, <1>3, OneRunnerStep

LEMMA GotoFits ==
  ASSUME Base, NEW r \in Runners, NEW s \in States \ {"apply"}, Goto(r, s),
         s \notin Idle => pc[r] \notin Idle,
         s \in Holding => pc[r] \in Holding,
         s \in {"record", "bury"} => jobs'[job[r]].status = "success",
         s \in DeletePcs => pc[r] \in DeletePcs
  PROVE  RunnersFit
<1>1. RunnerOK
  BY DEF Base, TypeOK, RunnerOK
<1>2. RunnerOK' /\ pc'[r] = s /\ job' = job /\ copy' = copy /\ plan' = plan /\ Others(r)
  BY <1>1, GotoShape DEF Others
<1>3. s \notin Idle => job'[r] \in Created
  BY <1>2 DEF Base, Equipped
<1>4. s \in Holding => copy'[r] \in Sources
  BY <1>2 DEF Base, Equipped
<1>5. RunnerStep(r)
  BY <1>2, <1>3, <1>4 DEF RunnerStep
<1> QED BY <1>2, <1>5, OneRunnerStep

LEMMA FinalizeMoves ==
  ASSUME Base, NEW r \in Runners, pc[r] \notin Idle, NEW s \in {"success", "failed"},
         NEW state \in {"record", "bury", "failing", "restore", "idle"},
         Finalize(r, s, state),
         state \in Holding => pc[r] \in Holding,
         state \in {"record", "bury"} => s = "success"
  PROVE  RunnersFit
<1>1. CASE Owns(r)
  <2>1. job[r] \in Jobs /\ Active(job[r])
    BY <1>1, OwnedJob DEF Active, Running
  <2>2. jobs'[job[r]].status = s /\ Goto(r, state)
    BY <1>1, <2>1, EndedFit DEF Finalize
  <2>3. state \in States \ {"apply"} /\ state \notin DeletePcs
    BY DEF States, Ending, DeletePcs
  <2> QED BY <2>2, <2>3, GotoFits
<1>2. CASE ~Owns(r)
  BY <1>2, StopFits DEF Finalize
<1> QED BY <1>1, <1>2

LEMMA AdvanceFits ==
  ASSUME Base, NEW r \in Runners, NEW state \in {"save", "reject"}, Advance(r, state),
         pc[r] \in Holding
  PROVE  RunnersFit
<1>1. CASE Owns(r)
  <2>1. state \in States \ {"apply"} /\ state \notin DeletePcs \cup {"record", "bury"} \cup Idle
    BY DEF States, Executing, DeletePcs, Idle
  <2>2. pc[r] \notin Idle
    BY DEF Holding, Idle
  <2> QED BY <1>1, <2>1, <2>2, GotoFits DEF Advance
<1>2. CASE ~Owns(r)
  BY <1>2, StopFits DEF Advance
<1> QED BY <1>1, <1>2

(* A runner that reads the source or a job, and goes on. *)
LEMMA ReadFits ==
  ASSUME Base, NEW r \in Runners, NEW s \in States \ {"apply", "record", "bury"},
         pc' = [pc EXCEPT ![r] = s],
         NEW j \in 0..MaxJobs, job' = [job EXCEPT ![r] = j], s \notin Idle => j \in Created,
         NEW d \in Sources \cup {NoCopy}, copy' = [copy EXCEPT ![r] = d],
         d \in Sources => d = source \/ (copy[r] \in Sources /\ d.last = copy[r].last),
         s \in Holding => d \in Sources,
         s \in DeletePcs => j = job[r] /\ jobs[j].kind = "delete",
         UNCHANGED plan
  PROVE  RunnersFit
<1>1. RunnerOK' /\ Others(r) /\ pc'[r] = s /\ job'[r] = j /\ copy'[r] = d
  BY DEF Base, TypeOK, RunnerOK, Others
<1>2. RunnerStep(r)
  BY <1>1 DEF RunnerStep
<1> QED BY <1>1, <1>2, OneRunnerStep

LEMMA RunnerTypes ==
  ASSUME Base, NEW r \in Runners
  PROVE  /\ pc[r] \in States /\ job[r] \in 0..MaxJobs /\ copy[r] \in Sources \cup {NoCopy}
         /\ plan[r] \in [{"delete", "create", "update"} -> SUBSET Skills]
         /\ pc = [pc EXCEPT ![r] = pc[r]] /\ job = [job EXCEPT ![r] = job[r]]
         /\ copy = [copy EXCEPT ![r] = copy[r]]
         /\ pc[r] \notin Idle => job[r] \in Created
         /\ pc[r] \in Holding => copy[r] \in Sources
BY DEF Base, TypeOK, Equipped

LEMMA LoadMoves ==
  ASSUME Base, NEW r \in Runners, Load(r)
  PROVE  RunnersFit
<1>1. /\ job' = [job EXCEPT ![r] = job[r]] /\ job[r] \in 0..MaxJobs /\ job[r] \in Created
      /\ copy = [copy EXCEPT ![r] = copy[r]] /\ copy[r] \in Sources \cup {NoCopy}
      /\ UNCHANGED plan
  BY RunnerTypes DEF Load, Idle
<1>2. CASE source.status = "deleted"
  <2>1. "orphan" \in States \ {"apply", "record", "bury"} /\ "orphan" \notin Holding \cup DeletePcs
    BY DEF States, Executing, Holding, DeletePcs
  <2>2. copy' = [copy EXCEPT ![r] = copy[r]] /\ pc' = [pc EXCEPT ![r] = "orphan"]
    BY <1>1, <1>2 DEF Load
  <2> QED BY <1>1, <2>1, <2>2, ReadFits
<1>3. CASE source.status # "deleted"
  <2>1. source \in Sources
    BY DEF Base, TypeOK
  <2>2. PICK s \in {"sweep", "begin", "reject"} :
          /\ pc' = [pc EXCEPT ![r] = s]
          /\ s = "sweep" => jobs[job[r]].kind = "delete"
    BY <1>3 DEF Load
  <2>3. s \in States \ {"apply", "record", "bury"} /\ (s \in DeletePcs => s = "sweep")
    BY DEF States, Executing, DeletePcs
  <2>4. PICK d \in Sources : d = source /\ copy' = [copy EXCEPT ![r] = d]
    BY <1>3, <2>1 DEF Load
  <2> QED BY <1>1, <2>1, <2>2, <2>3, <2>4, ReadFits
<1> QED BY <1>2, <1>3

LEMMA RecoverMoves ==
  ASSUME Base, NEW r \in Runners, Recover(r)
  PROVE  RunnersFit
<1>1. CASE source.status = "deleted"
  BY <1>1, LeaveFits DEF Recover
<1>2. CASE source.status # "deleted"
  <2>1. source \in Sources /\ job[r] \in 0..MaxJobs /\ job[r] \in Created
    BY RunnerTypes DEF Base, TypeOK, Recover, Idle
  <2>2. PICK s \in {"restoreLate", "failingLate"} : pc' = [pc EXCEPT ![r] = s]
    BY <1>2 DEF Recover
  <2>3. s \in States \ {"apply", "record", "bury"} /\ s \notin DeletePcs
    BY DEF States, Recovering, DeletePcs
  <2>4. job' = [job EXCEPT ![r] = job[r]] /\ UNCHANGED plan
    BY <1>2, RunnerTypes DEF Recover
  <2>5. PICK d \in Sources : d = source /\ copy' = [copy EXCEPT ![r] = d]
    BY <1>2, <2>1 DEF Recover
  <2> QED BY <2>1, <2>2, <2>3, <2>4, <2>5, ReadFits
<1> QED BY <1>1, <1>2

LEMMA PollMoves ==
  ASSUME Base, NEW r \in Runners, BeforePoll(r) \/ Claim(r)
  PROVE  RunnersFit
<1>1. CASE Goto(r, "polled")
  BY <1>1, GotoFits DEF States, Idle, Holding, DeletePcs
<1>2. CASE Stop(r)
  BY <1>2, StopFits
<1>3. ASSUME NEW j \in Jobs, Exhausted(j) \/ Claimable(j), NEW s \in {"recover", "load"},
             pc' = [pc EXCEPT ![r] = s], job' = [job EXCEPT ![r] = j], UNCHANGED <<copy, plan>>,
             pc[r] \in Idle
      PROVE  RunnersFit
  <2>1. j \in Created /\ j \in 0..MaxJobs
    BY <1>3 DEF Exhausted, Claimable, Active, Running, Created, Jobs
  <2>2. /\ copy' = [copy EXCEPT ![r] = copy[r]] /\ copy[r] \in Sources \cup {NoCopy}
        /\ UNCHANGED plan
    BY <1>3, RunnerTypes
  <2>3. s \in States \ {"apply", "record", "bury"} /\ s \notin Holding \cup DeletePcs
    BY <1>3 DEF States, Executing, Recovering, Holding, DeletePcs
  <2> QED BY <1>3, <2>1, <2>2, <2>3, ReadFits
<1> QED BY <1>1, <1>2, <1>3 DEF BeforePoll, Claim, Idle

LEMMA SaveMoves ==
  ASSUME Base, NEW r \in Runners, SaveSyncing(r)
  PROVE  RunnersFit
<1>1. /\ copy[r] \in Sources /\ job[r] \in 0..MaxJobs /\ job[r] \in Created
      /\ job' = [job EXCEPT ![r] = job[r]] /\ UNCHANGED plan
  BY RunnerTypes DEF SaveSyncing, Holding, Idle
<1>2. PICK s \in {"fetch", "reject"} : pc' = [pc EXCEPT ![r] = s]
  BY DEF SaveSyncing
<1>3. s \in States \ {"apply", "record", "bury"} /\ s \notin DeletePcs
  BY DEF States, Executing, DeletePcs
<1>4. PICK d \in Sources : copy' = [copy EXCEPT ![r] = d] /\ d.last = copy[r].last
  <2>1. CASE UNCHANGED copy
    BY <1>1, <2>1, RunnerTypes
  <2>2. CASE copy' = [copy EXCEPT ![r].sync = "syncing"]
    <3>1. copy' = [copy EXCEPT ![r] = [copy[r] EXCEPT !.sync = "syncing"]]
      BY <2>2 DEF Base, TypeOK
    <3>2. LET d == [copy[r] EXCEPT !.sync = "syncing"] IN d \in Sources /\ d.last = copy[r].last
      BY <1>1, SavedShape, BoundsAssumption DEF Running
    <3> QED BY <3>1, <3>2
  <2> QED BY <2>1, <2>2 DEF SaveSyncing
<1> QED BY <1>1, <1>2, <1>3, <1>4, ReadFits

(* A runner that plans, or does one piece of its plan. *)
LEMMA PlanFits ==
  ASSUME Base, NEW r \in Runners, pc[r] \in Holding,
         NEW s \in {"apply", "clear", "clearFailed"}, pc' = [pc EXCEPT ![r] = s],
         UNCHANGED <<job, copy>>,
         NEW p \in [{"delete", "create", "update"} -> SUBSET Skills], plan' = [plan EXCEPT ![r] = p],
         s = "apply" =>
           \/ p["delete"] \cap kept = {}
           \/ pc[r] = "apply" /\ p["delete"] \subseteq plan[r]["delete"],
         s # "apply" => pc[r] \in DeletePcs
  PROVE  RunnersFit
<1>1. s \in States
  BY DEF States, Executing
<1>2. /\ RunnerOK' /\ Others(r) /\ pc'[r] = s /\ plan'[r] = p
      /\ job'[r] = job[r] /\ copy'[r] = copy[r]
  BY <1>1 DEF Base, TypeOK, RunnerOK, Others
<1>3. job[r] \in Created /\ copy[r] \in Sources
  BY DEF Base, Equipped, Holding, Idle
<1>4. s \notin {"record", "bury"}
  OBVIOUS
<1>5. RunnerStep(r)
  BY <1>2, <1>3, <1>4 DEF RunnerStep, DeletePcs
<1> QED BY <1>2, <1>5, OneRunnerStep

(* A plan with fewer deletions. *)
LEMMA PlanShape ==
  ASSUME Base, NEW r \in Runners, NEW op \in {"delete", "create", "update"}, NEW k,
         plan' = [plan EXCEPT ![r][op] = @ \ {k}]
  PROVE  LET p == [plan[r] EXCEPT ![op] = @ \ {k}]
         IN  /\ p \in [{"delete", "create", "update"} -> SUBSET Skills]
             /\ plan' = [plan EXCEPT ![r] = p]
             /\ p["delete"] \subseteq plan[r]["delete"]
BY RunnerTypes DEF Base, TypeOK

LEMMA FetchMoves ==
  ASSUME Base, NEW r \in Runners, Fetch(r)
  PROVE  RunnersFit
<1>1. CASE Advance(r, "reject")
  BY <1>1, AdvanceFits DEF Fetch, Holding
<1>2. CASE ~Advance(r, "reject")
  <2>1. PICK found, unparsed \in SUBSET Skills :
          /\ kept \subseteq found \cup unparsed
          /\ plan' = [plan EXCEPT ![r] = Planned(found, unparsed, Live)]
          /\ pc' = [pc EXCEPT ![r] = "apply"]
          /\ UNCHANGED <<job, copy>>
    BY <1>2 DEF Fetch
  <2>2. /\ Planned(found, unparsed, Live) \in [{"delete", "create", "update"} -> SUBSET Skills]
        /\ Planned(found, unparsed, Live)["delete"] \cap kept = {}
    BY <2>1 DEF Planned, Present, Live
  <2>3. PICK p \in [{"delete", "create", "update"} -> SUBSET Skills] :
          p["delete"] \cap kept = {} /\ plan' = [plan EXCEPT ![r] = p]
    BY <2>1, <2>2
  <2>4. pc[r] \in Holding
    BY DEF Fetch, Holding
  <2> QED BY <2>1, <2>3, <2>4, PlanFits
<1> QED BY <1>1, <1>2

LEMMA ApplyMoves ==
  ASSUME Base, NEW r \in Runners, NEW op \in {"delete", "create", "update"}, NEW k \in Skills,
         ApplySkill(r, op, k)
  PROVE  RunnersFit
<1>1. PICK p \in [{"delete", "create", "update"} -> SUBSET Skills] :
        plan' = [plan EXCEPT ![r] = p] /\ p["delete"] \subseteq plan[r]["delete"]
  BY PlanShape DEF ApplySkill
<1>2. pc' = [pc EXCEPT ![r] = "apply"] /\ pc[r] = "apply" /\ pc[r] \in Holding
  BY RunnerTypes DEF ApplySkill, Holding
<1> QED BY <1>1, <1>2, PlanFits DEF ApplySkill

LEMMA SweepMoves ==
  ASSUME Base, NEW r \in Runners, Sweep(r)
  PROVE  RunnersFit
<1>1. CASE Owns(r)
  <2> DEFINE p == [plan[r] EXCEPT !.delete = Live]
  <2>1. p \in [{"delete", "create", "update"} -> SUBSET Skills]
    BY RunnerTypes DEF Live
  <2>2. /\ plan' = [plan EXCEPT ![r] = p] /\ pc' = [pc EXCEPT ![r] = "clear"]
        /\ UNCHANGED <<job, copy>>
    BY <1>1 DEF Sweep, Base, TypeOK
  <2>3. pc[r] \in Holding /\ pc[r] \in DeletePcs
    BY DEF Sweep, Holding, DeletePcs
  <2> HIDE DEF p
  <2> QED BY <2>1, <2>2, <2>3, PlanFits
<1>2. CASE ~Owns(r)
  BY <1>2, StopFits DEF Sweep
<1> QED BY <1>1, <1>2

LEMMA ClearMoves ==
  ASSUME Base, NEW r \in Runners, NEW k \in Skills, ClearSkill(r, k)
  PROVE  RunnersFit
<1>1. PICK p \in [{"delete", "create", "update"} -> SUBSET Skills] : plan' = [plan EXCEPT ![r] = p]
  BY PlanShape DEF ClearSkill
<1>2. PICK s \in {"clear", "clearFailed"} : pc' = [pc EXCEPT ![r] = s]
  BY RunnerTypes DEF ClearSkill
<1>3. pc[r] \in Holding /\ pc[r] \in DeletePcs
  BY DEF ClearSkill, Holding, DeletePcs
<1> QED BY <1>1, <1>2, <1>3, PlanFits DEF ClearSkill

LEMMA RunnersStep ==
  ASSUME Base, [Next]_vars
  PROVE  RunnersFit
<1>1. ASSUME NEW c \in Callers, Read(c) PROVE RunnersFit
  BY <1>1, RunnersSame DEF Read
<1>2. ASSUME NEW c \in Callers, Refuse(c) PROVE RunnersFit
  BY <1>2, RunnersSame DEF Refuse
<1>3. ASSUME NEW c \in Callers, NEW rev \in 1..MaxRev, NEW sync \in BOOLEAN, Edit(c, rev, sync)
       PROVE  RunnersFit
  BY <1>3, RunnersSame DEF Edit
<1>4. ASSUME NEW c \in Callers, NEW kind \in {"sync", "delete"}, Submit(c, kind)
       PROVE  RunnersFit
  BY <1>4, RunnersSame DEF Submit
<1>5. ASSUME NEW r \in Runners, BeforePoll(r) PROVE RunnersFit
  BY <1>5, PollMoves
<1>6. ASSUME NEW r \in Runners, Claim(r) PROVE RunnersFit
  BY <1>6, PollMoves
<1>7. ASSUME NEW r \in Runners, Recover(r) PROVE RunnersFit
  BY <1>7, RecoverMoves
<1>8. ASSUME NEW r \in Runners, Load(r) PROVE RunnersFit
  BY <1>8, LoadMoves
<1>9. ASSUME NEW r \in Runners, Begin(r) PROVE RunnersFit
  BY <1>9, AdvanceFits DEF Begin, Holding
<1>10. ASSUME NEW r \in Runners, SaveSyncing(r) PROVE RunnersFit
  BY <1>10, SaveMoves
<1>11. ASSUME NEW r \in Runners, Fetch(r) PROVE RunnersFit
  BY <1>11, FetchMoves
<1>12. ASSUME NEW r \in Runners, NEW op \in {"delete", "create", "update"},
             NEW k \in Skills, ApplySkill(r, op, k)
       PROVE  RunnersFit
  BY <1>12, ApplyMoves
<1>13. ASSUME NEW r \in Runners, Finish(r) PROVE RunnersFit
  BY <1>13, FinalizeMoves DEF Finish, Idle, Holding
<1>14. ASSUME NEW r \in Runners, Reject(r) PROVE RunnersFit
  BY <1>14, FinalizeMoves DEF Reject, Idle, Holding
<1>15. ASSUME NEW r \in Runners, Orphan(r) PROVE RunnersFit
  BY <1>15, FinalizeMoves DEF Orphan, Idle, Holding
<1>16. ASSUME NEW r \in Runners, Sweep(r) PROVE RunnersFit
  BY <1>16, SweepMoves
<1>17. ASSUME NEW r \in Runners, NEW k \in Skills, ClearSkill(r, k) PROVE RunnersFit
  BY <1>17, ClearMoves
<1>18. ASSUME NEW r \in Runners, FinishDelete(r) PROVE RunnersFit
  BY <1>18, FinalizeMoves DEF FinishDelete, Cleared, Idle, Holding
<1>19. ASSUME NEW r \in Runners, GiveUp(r) PROVE RunnersFit
  BY <1>19, GotoFits DEF GiveUp, States, Executing, Idle, Holding, DeletePcs
<1>20. ASSUME NEW r \in Runners, Undo(r) PROVE RunnersFit
  BY <1>20, FinalizeMoves DEF Undo, Idle, Holding
<1>21. ASSUME NEW r \in Runners, Record(r) PROVE RunnersFit
  BY <1>21, StopFits DEF Record
<1>22. ASSUME NEW r \in Runners, Bury(r) PROVE RunnersFit
  BY <1>22, StopFits DEF Bury
<1>23. ASSUME NEW r \in Runners, MarkFailed(r) PROVE RunnersFit
  BY <1>23, LeaveFits DEF MarkFailed
<1>24. ASSUME NEW r \in Runners, Restore(r) PROVE RunnersFit
  BY <1>24, LeaveFits DEF Restore
<1>25. ASSUME NEW r \in Runners, Crash(r) PROVE RunnersFit
  BY <1>25, StopFits DEF Crash
<1>26. ASSUME NEW r \in Runners, LeaseLost(r) PROVE RunnersFit
  BY <1>26, StopFits DEF LeaseLost
<1>27. ASSUME NEW r \in Runners, Stall(r) PROVE RunnersFit
  BY <1>27, RunnersSame DEF Stall
<1>28. CASE UNCHANGED vars
  BY <1>28, RunnersSame DEF vars
<1>. QED
  BY <1>1, <1>2, <1>3, <1>4, <1>5, <1>6, <1>7, <1>8, <1>9, <1>10, <1>11, <1>12, <1>13,
     <1>14, <1>15, <1>16, <1>17, <1>18, <1>19, <1>20, <1>21, <1>22, <1>23, <1>24, <1>25,
     <1>26, <1>27, <1>28 DEF Next, Call, Work, Fault

-----------------------------------------------------------------------------
(* What a step does to the source, the calls and the skills *)

(* lastSync after the step is that of a document some actor had, or the job *)
(* whose success is being recorded.                                         *)
LastStep ==
  \/ source'.last = source.last
  \/ \E c \in Callers : call[c] \in Sources /\ source'.last = call[c].last
  \/ \E r \in Runners : copy[r] \in Sources /\ source'.last = copy[r].last
  \/ \E r \in Runners : pc[r] \in {"record", "bury"} /\ source'.last = job[r]
CallStep ==
  \A c \in Callers : call'[c] \in Sources =>
    call'[c] = source \/ (call[c] \in Sources /\ call'[c].last = call[c].last)
SourceFits == SourceOK' /\ LastStep /\ CallOK' /\ CallStep

LEMMA SourceSame ==
  ASSUME Base, UNCHANGED <<source, call>>
  PROVE  SourceFits
BY DEF Base, TypeOK, SourceFits, SourceOK, CallOK, LastStep, CallStep

LEMMA CallSame ==
  ASSUME Base, UNCHANGED call
  PROVE  CallOK' /\ CallStep
BY DEF Base, TypeOK, CallOK, CallStep

(* The copies a runner saves. *)
LEMMA Held ==
  ASSUME Base, NEW r \in Runners, pc[r] \in Holding
  PROVE  copy[r] \in Sources /\ job[r] \in Jobs /\ job[r] \in 0..MaxJobs
BY DEF Base, TypeOK, Equipped, Created, Holding, Idle

LEMMA EndFits ==
  ASSUME Base, NEW r \in Runners, NEW s \in Sources,
         s.last = copy[r].last \/ (pc[r] \in {"record", "bury"} /\ s.last = job[r]),
         pc[r] \in Holding, EndWith(r, s)
  PROVE  SourceFits
<1>1. CallOK' /\ CallStep
  BY CallSame DEF EndWith
<1>2. SourceOK' /\ LastStep
  BY Held DEF Base, TypeOK, EndWith, SourceOK, LastStep
<1> QED BY <1>1, <1>2 DEF SourceFits

LEMMA EditFits ==
  ASSUME Base, NEW c \in Callers, NEW rev \in 1..MaxRev, NEW sync \in BOOLEAN, Edit(c, rev, sync)
  PROVE  SourceFits
<1>1. call[c] \in Sources /\ 0 \in 0..MaxJobs
  BY BoundsAssumption DEF Edit, Base, TypeOK, NoCopy
<1>2. PICK s \in Sources : /\ s.last = call[c].last /\ source' = s
                           /\ call' \in {[call EXCEPT ![c] = d] : d \in {s, NoCopy}}
  <2>1. LET s == [call[c] EXCEPT !.rev = rev] IN s \in Sources /\ s.last = call[c].last
    BY <1>1, SavedShape
  <2> QED BY <2>1 DEF Edit, CallerSaves
<1>3. SourceOK' /\ LastStep
  BY <1>1, <1>2 DEF SourceOK, LastStep
<1>4. CallOK' /\ CallStep
  BY <1>1, <1>2, NoCopyIsNone DEF Base, TypeOK, CallOK, CallStep
<1> QED BY <1>3, <1>4 DEF SourceFits

LEMMA SubmitSaves ==
  ASSUME Base, NEW c \in Callers, NEW kind \in {"sync", "delete"}, Submit(c, kind)
  PROVE  SourceFits
<1>1. call[c] \in Sources /\ 0 \in 0..MaxJobs
  BY BoundsAssumption DEF Submit, Base, TypeOK, NoCopy
<1>2. PICK v \in {"active", "deleting"} :
        source' = [call[c] EXCEPT !.sync = "pending", !.status = v]
  BY <1>1 DEF Submit, CallerSaves, Sources
<1>3. source' \in Sources /\ source'.last = call[c].last
  BY <1>1, <1>2, SavedShape
<1>4. SourceOK' /\ LastStep
  BY <1>1, <1>3 DEF SourceOK, LastStep
<1>5. CallOK' /\ CallStep
  BY NoCopyIsNone DEF Submit, Base, TypeOK, CallOK, CallStep
<1> QED BY <1>4, <1>5 DEF SourceFits

LEMMA SourceStep ==
  ASSUME Base, [Next]_vars
  PROVE  SourceFits
<1>1. ASSUME NEW c \in Callers, Read(c) PROVE SourceFits
  <2>1. SourceOK' /\ LastStep
    BY <1>1 DEF Read, Base, TypeOK, SourceOK, LastStep
  <2>2. CallOK' /\ CallStep
    BY <1>1 DEF Read, Base, TypeOK, CallOK, CallStep
  <2> QED BY <2>1, <2>2 DEF SourceFits
<1>2. ASSUME NEW c \in Callers, Refuse(c) PROVE SourceFits
  <2>1. SourceOK' /\ LastStep
    BY <1>2 DEF Refuse, Base, TypeOK, SourceOK, LastStep
  <2>2. CallOK' /\ CallStep
    BY <1>2, NoCopyIsNone DEF Refuse, Base, TypeOK, CallOK, CallStep
  <2> QED BY <2>1, <2>2 DEF SourceFits
<1>3. ASSUME NEW c \in Callers, NEW rev \in 1..MaxRev, NEW sync \in BOOLEAN, Edit(c, rev, sync)
       PROVE  SourceFits
  BY <1>3, EditFits
<1>4. ASSUME NEW c \in Callers, NEW kind \in {"sync", "delete"}, Submit(c, kind)
       PROVE  SourceFits
  BY <1>4, SubmitSaves
<1>5. ASSUME NEW r \in Runners, BeforePoll(r) PROVE SourceFits
  BY <1>5, SourceSame DEF BeforePoll
<1>6. ASSUME NEW r \in Runners, Claim(r) PROVE SourceFits
  BY <1>6, SourceSame DEF Claim
<1>7. ASSUME NEW r \in Runners, Recover(r) PROVE SourceFits
  BY <1>7, SourceSame DEF Recover
<1>8. ASSUME NEW r \in Runners, Load(r) PROVE SourceFits
  BY <1>8, SourceSame DEF Load
<1>9. ASSUME NEW r \in Runners, Begin(r) PROVE SourceFits
  BY <1>9, SourceSame DEF Begin, Advance
<1>10. ASSUME NEW r \in Runners, SaveSyncing(r) PROVE SourceFits
  <2>1. copy[r] \in Sources /\ job[r] \in 0..MaxJobs
    BY <1>10, Held DEF SaveSyncing, Holding
  <2>2. LET d == [copy[r] EXCEPT !.sync = "syncing"] IN d \in Sources /\ d.last = copy[r].last
    BY <2>1, SavedShape, BoundsAssumption DEF Running
  <2>3. source' = source \/ source' = [copy[r] EXCEPT !.sync = "syncing"]
    BY <1>10 DEF SaveSyncing, Base, TypeOK
  <2>4. SourceOK' /\ LastStep
    BY <2>1, <2>2, <2>3 DEF Base, TypeOK, SourceOK, LastStep
  <2>5. CallOK' /\ CallStep
    BY <1>10, CallSame DEF SaveSyncing
  <2> QED BY <2>4, <2>5 DEF SourceFits
<1>11. ASSUME NEW r \in Runners, Fetch(r) PROVE SourceFits
  BY <1>11, SourceSame DEF Fetch, Advance
<1>12. ASSUME NEW r \in Runners, NEW op \in {"delete", "create", "update"},
             NEW k \in Skills, ApplySkill(r, op, k)
       PROVE  SourceFits
  BY <1>12, SourceSame DEF ApplySkill
<1>13. ASSUME NEW r \in Runners, Finish(r) PROVE SourceFits
  BY <1>13, SourceSame DEF Finish, Finalize
<1>14. ASSUME NEW r \in Runners, Reject(r) PROVE SourceFits
  BY <1>14, SourceSame DEF Reject, Finalize
<1>15. ASSUME NEW r \in Runners, Orphan(r) PROVE SourceFits
  BY <1>15, SourceSame DEF Orphan, Finalize
<1>16. ASSUME NEW r \in Runners, Sweep(r) PROVE SourceFits
  BY <1>16, SourceSame DEF Sweep
<1>17. ASSUME NEW r \in Runners, NEW k \in Skills, ClearSkill(r, k) PROVE SourceFits
  BY <1>17, SourceSame DEF ClearSkill
<1>18. ASSUME NEW r \in Runners, FinishDelete(r) PROVE SourceFits
  BY <1>18, SourceSame DEF FinishDelete, Finalize
<1>19. ASSUME NEW r \in Runners, GiveUp(r) PROVE SourceFits
  BY <1>19, SourceSame DEF GiveUp
<1>20. ASSUME NEW r \in Runners, Undo(r) PROVE SourceFits
  BY <1>20, SourceSame DEF Undo, Finalize
<1>21. ASSUME NEW r \in Runners, Record(r) PROVE SourceFits
  <2>1. pc[r] \in Holding /\ pc[r] = "record"
    BY <1>21 DEF Record, Holding
  <2>2. Recorded(r) \in Sources /\ Recorded(r).last = job[r]
    BY <2>1, Held, SavedShape DEF Recorded
  <2>3. LET s == [Recorded(r) EXCEPT !.sync = "failed"] IN s \in Sources /\ s.last = job[r]
    BY <2>1, <2>2, Held, SavedShape
  <2> QED BY <1>21, <2>1, <2>2, <2>3, EndFits DEF Record
<1>22. ASSUME NEW r \in Runners, Bury(r) PROVE SourceFits
  <2>1. pc[r] \in Holding /\ pc[r] = "bury"
    BY <1>22 DEF Bury, Holding
  <2>2. Buried(r) \in Sources /\ Buried(r).last = job[r]
    BY <2>1, Held, SavedShape DEF Buried
  <2>3. LET s == [Restored(r) EXCEPT !.last = job[r]] IN s \in Sources /\ s.last = job[r]
    BY <2>1, Held DEF Restored, Sources
  <2> QED BY <1>22, <2>1, <2>2, <2>3, EndFits DEF Bury
<1>23. ASSUME NEW r \in Runners, MarkFailed(r) PROVE SourceFits
  <2>1. pc[r] \in Holding
    BY <1>23 DEF MarkFailed, Holding
  <2>2. Failed(r) \in Sources /\ Failed(r).last = copy[r].last
    BY <2>1, Held, SavedShape DEF Failed
  <2> QED BY <1>23, <2>1, <2>2, EndFits, SourceSame DEF MarkFailed
<1>24. ASSUME NEW r \in Runners, Restore(r) PROVE SourceFits
  <2>1. pc[r] \in Holding
    BY <1>24 DEF Restore, Holding
  <2>2. Restored(r) \in Sources /\ Restored(r).last = copy[r].last
    BY <2>1, Held, SavedShape DEF Restored
  <2> QED BY <1>24, <2>1, <2>2, EndFits DEF Restore
<1>25. ASSUME NEW r \in Runners, Crash(r) PROVE SourceFits
  BY <1>25, SourceSame DEF Crash
<1>26. ASSUME NEW r \in Runners, LeaseLost(r) PROVE SourceFits
  BY <1>26, SourceSame DEF LeaseLost
<1>27. ASSUME NEW r \in Runners, Stall(r) PROVE SourceFits
  BY <1>27, SourceSame DEF Stall
<1>28. CASE UNCHANGED vars
  BY <1>28, SourceSame DEF vars
<1>. QED
  BY <1>1, <1>2, <1>3, <1>4, <1>5, <1>6, <1>7, <1>8, <1>9, <1>10, <1>11, <1>12, <1>13,
     <1>14, <1>15, <1>16, <1>17, <1>18, <1>19, <1>20, <1>21, <1>22, <1>23, <1>24, <1>25,
     <1>26, <1>27, <1>28 DEF Next, Call, Work, Fault

(* A skill is removed by an execution that plans to, and only by it. *)
SkillStep ==
  \A k \in Skills : skills[k] > 0 /\ skills'[k] = 0 =>
    \E r \in Runners : \/ pc[r] = "apply" /\ k \in plan[r]["delete"]
                       \/ pc[r] \in DeletePcs
RestFits == RestOK' /\ SkillStep /\ UNCHANGED kept

LEMMA RestSame ==
  ASSUME Base, UNCHANGED <<skills, kept>>,
         causes' \subseteq causes \cup {"overwrite", "overrun", "unrecorded"}
  PROVE  RestFits
BY DEF Base, TypeOK, RestFits, RestOK, SkillStep

LEMMA ApplyKeeps ==
  ASSUME Base, NEW r \in Runners, NEW op \in {"delete", "create", "update"}, NEW k \in Skills,
         ApplySkill(r, op, k), UNCHANGED kept
  PROVE  RestFits
<1>1. CASE UNCHANGED <<skills, causes>>
  BY <1>1, RestSame
<1>2. CASE ~UNCHANGED <<skills, causes>>
  <2> DEFINE n == CASE op = "create" -> skills[k] + 1
                    [] op = "update" -> IF skills[k] = 0 THEN 1 ELSE skills[k]
                    [] op = "delete" -> IF skills[k] = 0 THEN 0 ELSE skills[k] - 1
  <2>1. skills \in [Skills -> Nat] /\ skills[k] \in Nat
    BY DEF Base, TypeOK
  <2>2. n \in Nat /\ (skills[k] > 0 /\ n = 0 => op = "delete")
    BY <2>1
  <2>3. skills' = [skills EXCEPT ![k] = n] /\ pc[r] = "apply" /\ k \in plan[r][op]
    BY <1>2, <2>1 DEF ApplySkill
  <2>4. causes' \subseteq causes \cup {"overrun"}
    BY DEF ApplySkill, Overrun
  <2> HIDE DEF n
  <2>5. skills' \in [Skills -> Nat] /\ skills'[k] = n /\ \A i \in Skills \ {k} : skills'[i] = skills[i]
    BY <2>1, <2>2, <2>3, Put
  <2>6. RestOK'
    BY <2>4, <2>5 DEF Base, TypeOK, RestOK
  <2>7. SkillStep
    BY <2>1, <2>2, <2>3, <2>5 DEF SkillStep
  <2> QED BY <2>6, <2>7 DEF RestFits
<1> QED BY <1>1, <1>2

LEMMA ClearKeeps ==
  ASSUME Base, NEW r \in Runners, NEW k \in Skills, ClearSkill(r, k), UNCHANGED kept
  PROVE  RestFits
<1>1. causes' \subseteq causes \cup {"overrun"} /\ skills' \in [Skills -> Nat]
  BY DEF ClearSkill, Overrun, Base, TypeOK
<1>2. RestOK'
  BY <1>1 DEF Base, TypeOK, RestOK
<1>3. SkillStep
  BY DEF ClearSkill, SkillStep, DeletePcs
<1> QED BY <1>2, <1>3 DEF RestFits

LEMMA RestStep ==
  ASSUME Base, [Next]_vars
  PROVE  RestFits
<1>0. UNCHANGED kept
  BY DEF Next, vars
<1>1. ASSUME NEW c \in Callers, Read(c) PROVE RestFits
  BY <1>0, <1>1, RestSame DEF Read
<1>2. ASSUME NEW c \in Callers, Refuse(c) PROVE RestFits
  BY <1>0, <1>2, RestSame DEF Refuse
<1>3. ASSUME NEW c \in Callers, NEW rev \in 1..MaxRev, NEW sync \in BOOLEAN, Edit(c, rev, sync)
       PROVE  RestFits
  BY <1>0, <1>3, RestSame DEF Edit, CallerSaves
<1>4. ASSUME NEW c \in Callers, NEW kind \in {"sync", "delete"}, Submit(c, kind) PROVE RestFits
  BY <1>0, <1>4, RestSame DEF Submit, CallerSaves
<1>5. ASSUME NEW r \in Runners, BeforePoll(r) PROVE RestFits
  BY <1>0, <1>5, RestSame DEF BeforePoll
<1>6. ASSUME NEW r \in Runners, Claim(r) PROVE RestFits
  BY <1>0, <1>6, RestSame DEF Claim
<1>7. ASSUME NEW r \in Runners, Recover(r) PROVE RestFits
  BY <1>0, <1>7, RestSame DEF Recover
<1>8. ASSUME NEW r \in Runners, Load(r) PROVE RestFits
  BY <1>0, <1>8, RestSame DEF Load
<1>9. ASSUME NEW r \in Runners, Begin(r) PROVE RestFits
  BY <1>0, <1>9, RestSame DEF Begin, Advance
<1>10. ASSUME NEW r \in Runners, SaveSyncing(r) PROVE RestFits
  BY <1>0, <1>10, RestSame DEF SaveSyncing, Overrun
<1>11. ASSUME NEW r \in Runners, Fetch(r) PROVE RestFits
  BY <1>0, <1>11, RestSame DEF Fetch, Advance
<1>12. ASSUME NEW r \in Runners, NEW op \in {"delete", "create", "update"},
             NEW k \in Skills, ApplySkill(r, op, k)
       PROVE  RestFits
  BY <1>0, <1>12, ApplyKeeps
<1>13. ASSUME NEW r \in Runners, Finish(r) PROVE RestFits
  BY <1>0, <1>13, RestSame DEF Finish, Finalize
<1>14. ASSUME NEW r \in Runners, Reject(r) PROVE RestFits
  BY <1>0, <1>14, RestSame DEF Reject, Finalize
<1>15. ASSUME NEW r \in Runners, Orphan(r) PROVE RestFits
  BY <1>0, <1>15, RestSame DEF Orphan, Finalize
<1>16. ASSUME NEW r \in Runners, Sweep(r) PROVE RestFits
  BY <1>0, <1>16, RestSame DEF Sweep
<1>17. ASSUME NEW r \in Runners, NEW k \in Skills, ClearSkill(r, k) PROVE RestFits
  BY <1>0, <1>17, ClearKeeps
<1>18. ASSUME NEW r \in Runners, FinishDelete(r) PROVE RestFits
  BY <1>0, <1>18, RestSame DEF FinishDelete, Finalize
<1>19. ASSUME NEW r \in Runners, GiveUp(r) PROVE RestFits
  BY <1>0, <1>19, RestSame DEF GiveUp
<1>20. ASSUME NEW r \in Runners, Undo(r) PROVE RestFits
  BY <1>0, <1>20, RestSame DEF Undo, Finalize
<1>21. ASSUME NEW r \in Runners, Record(r) PROVE RestFits
  BY <1>0, <1>21, RestSame DEF Record, EndWith
<1>22. ASSUME NEW r \in Runners, Bury(r) PROVE RestFits
  BY <1>0, <1>22, RestSame DEF Bury, EndWith
<1>23. ASSUME NEW r \in Runners, MarkFailed(r) PROVE RestFits
  BY <1>0, <1>23, RestSame DEF MarkFailed, EndWith
<1>24. ASSUME NEW r \in Runners, Restore(r) PROVE RestFits
  BY <1>0, <1>24, RestSame DEF Restore, EndWith
<1>25. ASSUME NEW r \in Runners, Crash(r) PROVE RestFits
  BY <1>0, <1>25, RestSame DEF Crash, Dropped
<1>26. ASSUME NEW r \in Runners, LeaseLost(r) PROVE RestFits
  BY <1>0, <1>26, RestSame DEF LeaseLost, Dropped
<1>27. ASSUME NEW r \in Runners, Stall(r) PROVE RestFits
  BY <1>0, <1>27, RestSame DEF Stall
<1>28. CASE UNCHANGED vars
  BY <1>0, <1>28, RestSame DEF vars
<1>. QED
  BY <1>1, <1>2, <1>3, <1>4, <1>5, <1>6, <1>7, <1>8, <1>9, <1>10, <1>11, <1>12, <1>13,
     <1>14, <1>15, <1>16, <1>17, <1>18, <1>19, <1>20, <1>21, <1>22, <1>23, <1>24, <1>25,
     <1>26, <1>27, <1>28 DEF Next, Call, Work, Fault

-----------------------------------------------------------------------------
(* Types *)

LEMMA InitBase ==
  ASSUME Init
  PROVE  Base
<1>1. /\ 1 \in 1..MaxRev /\ 0 \in 0..MaxJobs /\ 0 \in 0..MaxAttempts
  BY BoundsAssumption
<1>2. UnbornJob \in JobRecords
  BY <1>1 DEF UnbornJob, JobRecords
<1>3. SourceOK
  BY <1>1 DEF Init, SourceOK, Sources
<1>4. JobsOK /\ CallOK /\ RestOK
  BY <1>2 DEF Init, JobsOK, CallOK, RestOK
<1>5. NoPlan \in [{"delete", "create", "update"} -> SUBSET Skills] /\ "idle" \in States
  BY DEF NoPlan, States
<1>6. RunnerOK
  BY <1>1, <1>5 DEF Init, RunnerOK
<1>7. Equipped
  BY DEF Init, Equipped, Idle, Holding
<1>8. TokensFit
  BY DEF Init, TokensFit, UnbornJob
<1> QED BY <1>3, <1>4, <1>6, <1>7, <1>8, TypeParts DEF Base

LEMMA BaseStep ==
  ASSUME Base, [Next]_vars
  PROVE  Base'
<1>1. JobsFit /\ RunnersFit /\ SourceFits /\ RestFits
  BY JobsStep, RunnersStep, SourceStep, RestStep
<1>2. TypeOK'
  BY <1>1, TypeParts DEF TypeOK, JobsFit, RunnersFit, SourceFits, RestFits,
     SourceOK, JobsOK, CallOK, RestOK, RunnerOK
<1>3. Equipped'
  BY <1>1 DEF JobsFit, RunnersFit, JobStep, RunnerStep, Equipped, Created
<1>4. TokensFit'
  BY <1>1 DEF JobsFit, JobStep, TokensFit
<1> QED BY <1>2, <1>3, <1>4 DEF Base

LEMMA BaseInvariant == Spec => []Base
<1>1. Init => Base
  BY InitBase
<1>2. Base /\ [Next]_vars => Base'
  BY BaseStep
<1> QED BY <1>1, <1>2, PTL DEF Spec

(* Every document and every runner keeps its type, whatever the order of   *)
(* calls, polls, executions and faults.                                    *)
THEOREM TypeCorrect == Spec => []TypeOK
<1>1. Base => TypeOK
  BY DEF Base
<1> QED BY <1>1, BaseInvariant, PTL

-----------------------------------------------------------------------------
(* Jobs *)

LEMMA ActiveJobStep ==
  ASSUME Base, OneActiveJob, [Next]_vars
  PROVE  OneActiveJob'
<1> SUFFICES ASSUME NEW i \in Jobs, NEW j \in Jobs, Active(i)', Active(j)'
             PROVE  i = j
  BY DEF OneActiveJob
<1>1. (Active(i) \/ Born(i)) /\ (Active(j) \/ Born(j))
  BY JobsStep DEF JobsFit, JobStep
<1>2. CASE Active(i) /\ Active(j)
  BY <1>2 DEF OneActiveJob
<1>3. CASE Born(i) /\ Born(j)
  BY <1>3 DEF Born, Jobs
<1>4. ~(Active(i) /\ Born(j)) /\ ~(Born(i) /\ Active(j))
  BY DEF Born, NoActiveJob
<1> QED BY <1>1, <1>2, <1>3, <1>4

(* A source has at most one job that is queued or executing, however many  *)
(* calls and runners there are: create_job inserts only where it saw none. *)
THEOREM SingleActiveJob == Spec => []OneActiveJob
<1>1. Init => OneActiveJob
  BY DEF Init, OneActiveJob, Active, UnbornJob, Running
<1> QED BY <1>1, ActiveJobStep, BaseInvariant, PTL DEF Spec

(* A job ends once: no later write of an execution that was superseded, of *)
(* a runner that takes it for exhausted, or of a call changes it.          *)
THEOREM EndIsFinal == Spec => JobEndsOnce
<1>1. ASSUME Base, [Next]_vars
      PROVE  [\A j \in Jobs : jobs[j].status \in {"success", "failed"} => jobs'[j] = jobs[j]]_vars
  BY <1>1, JobsStep DEF JobsFit, JobStep
<1> QED BY <1>1, BaseInvariant, PTL DEF Spec, JobEndsOnce

-----------------------------------------------------------------------------
(* lastSync: a version of the source that is read, held or saved names a   *)
(* sync that succeeded, and so does the job an execution is about to       *)
(* record.                                                                 *)

Good(n) == n # 0 => jobs[n].status = "success"
LastGood ==
  /\ Good(source.last)
  /\ \A c \in Callers : call[c] \in Sources => Good(call[c].last)
  /\ \A r \in Runners : copy[r] \in Sources => Good(copy[r].last)
  /\ \A r \in Runners : pc[r] \in {"record", "bury"} => jobs[job[r]].status = "success"

LEMMA GoodStays ==
  ASSUME Base, [Next]_vars, NEW n \in 0..MaxJobs, Good(n)
  PROVE  Good(n)'
<1>1. n # 0 => n \in Jobs
  BY BoundsAssumption DEF Jobs
<1> QED BY <1>1, JobsStep DEF Good, JobsFit, JobStep

LEMMA LastGoodStep ==
  ASSUME Base, LastGood, [Next]_vars
  PROVE  LastGood'
<1>1. RunnersFit /\ SourceFits /\ Base'
  BY RunnersStep, SourceStep, BaseStep
<1>2. source \in Sources /\ \A s \in Sources : s.last \in 0..MaxJobs
  BY DEF Base, TypeOK, Sources
<1>3. ASSUME NEW r \in Runners, pc[r] \in {"record", "bury"}
      PROVE  job[r] \in 0..MaxJobs /\ jobs'[job[r]].status = "success"
  <2>1. job[r] \in Jobs /\ job[r] \in 0..MaxJobs
    BY <1>3, Held DEF Holding
  <2>2. jobs[job[r]].status = "success"
    BY <1>3 DEF LastGood
  <2>3. jobs'[job[r]] = jobs[job[r]]
    BY <2>1, <2>2, JobsStep DEF JobsFit, JobStep
  <2> QED BY <2>1, <2>2, <2>3
<1>4. Good(source.last)'
  BY <1>1, <1>2, <1>3, GoodStays DEF SourceFits, LastStep, LastGood, Good
<1>5. ASSUME NEW c \in Callers, call'[c] \in Sources
      PROVE  Good(call[c].last)'
  <2>1. call'[c] = source \/ (call[c] \in Sources /\ call'[c].last = call[c].last)
    BY <1>1, <1>5 DEF SourceFits, CallStep
  <2>2. CASE call'[c] = source
    BY <1>2, <2>2, GoodStays DEF LastGood, Good
  <2>3. CASE call[c] \in Sources /\ call'[c].last = call[c].last
    BY <1>2, <2>3, GoodStays DEF LastGood, Good
  <2> QED BY <2>1, <2>2, <2>3
<1>6. ASSUME NEW r \in Runners, copy'[r] \in Sources
      PROVE  Good(copy[r].last)'
  <2>1. copy'[r] = source \/ (copy[r] \in Sources /\ copy'[r].last = copy[r].last)
    BY <1>1, <1>6 DEF RunnersFit, RunnerStep
  <2>2. CASE copy'[r] = source
    BY <1>2, <2>2, GoodStays DEF LastGood, Good
  <2>3. CASE copy[r] \in Sources /\ copy'[r].last = copy[r].last
    BY <1>2, <2>3, GoodStays DEF LastGood, Good
  <2> QED BY <2>1, <2>2, <2>3
<1>7. ASSUME NEW r \in Runners, pc'[r] \in {"record", "bury"}
      PROVE  jobs'[job'[r]].status = "success"
  <2>1. job'[r] = job[r] /\ (pc'[r] = pc[r] \/ jobs'[job[r]].status = "success")
    BY <1>1, <1>7 DEF RunnersFit, RunnerStep
  <2> QED BY <1>3, <1>7, <2>1
<1> QED BY <1>4, <1>5, <1>6, <1>7 DEF LastGood

(* lastSync never names a sync that failed or still runs, although every   *)
(* actor saves whole documents that may be stale.                          *)
THEOREM LastSyncIsGood == Spec => []LastSyncSucceeded
<1>1. Init => LastGood
  BY NoCopyIsNone DEF Init, LastGood, Good
<1>2. Base /\ LastGood /\ [Next]_vars => LastGood'
  BY LastGoodStep
<1>3. LastGood => LastSyncSucceeded
  BY DEF LastGood, Good, LastSyncSucceeded
<1> QED BY <1>1, <1>2, <1>3, BaseInvariant, PTL DEF Spec

-----------------------------------------------------------------------------
(* Skills: an execution that applies its plan deletes nothing that stayed  *)
(* upstream, and one that clears all skills runs a delete job.             *)

KeepsPlan ==
  \A r \in Runners : /\ pc[r] = "apply" => plan[r]["delete"] \cap kept = {}
                     /\ pc[r] \in DeletePcs => jobs[job[r]].kind = "delete"

LEMMA KeepsPlanStep ==
  ASSUME Base, KeepsPlan, [Next]_vars
  PROVE  KeepsPlan'
<1> SUFFICES ASSUME NEW r \in Runners
             PROVE  /\ pc'[r] = "apply" => plan'[r]["delete"] \cap kept' = {}
                    /\ pc'[r] \in DeletePcs => jobs'[job'[r]].kind = "delete"
  BY DEF KeepsPlan
<1>1. RunnerStep(r) /\ kept' = kept
  BY RunnersStep, RestStep DEF RunnersFit, RestFits
<1>2. pc'[r] = "apply" => plan'[r]["delete"] \cap kept' = {}
  BY <1>1 DEF RunnerStep, KeepsPlan
<1>3. ASSUME pc'[r] \in DeletePcs
      PROVE  jobs'[job'[r]].kind = "delete"
  <2>1. job'[r] \in Created /\ job'[r] = job[r] /\ jobs[job[r]].kind = "delete"
    BY <1>1, <1>3 DEF RunnerStep, KeepsPlan, DeletePcs, Idle
  <2> QED BY <2>1, JobsStep DEF JobsFit, JobStep, Created
<1> QED BY <1>2, <1>3

(* A skill that is upstream in every version goes only with its source: no *)
(* stale plan, parse error, superseded execution or crash removes it.      *)
THEOREM KeptSkillsStay == Spec => KeptSkillStays
<1>1. Init => KeepsPlan
  BY DEF Init, KeepsPlan, DeletePcs
<1>2. Base /\ KeepsPlan /\ [Next]_vars => KeepsPlan'
  BY KeepsPlanStep
<1>3. ASSUME Base, KeepsPlan, [Next]_vars
      PROVE  [\A k \in kept : skills[k] > 0 /\ skills'[k] = 0
                => \E j \in Jobs : jobs[j].kind = "delete"]_vars
  <2> SUFFICES ASSUME NEW k \in kept, skills[k] > 0, skills'[k] = 0
               PROVE  \E j \in Jobs : jobs[j].kind = "delete"
    OBVIOUS
  <2>1. k \in Skills
    BY <1>3 DEF Base, TypeOK
  <2>2. PICK r \in Runners : \/ pc[r] = "apply" /\ k \in plan[r]["delete"]
                             \/ pc[r] \in DeletePcs
    BY <1>3, <2>1, RestStep DEF RestFits, SkillStep
  <2>3. pc[r] \in DeletePcs /\ jobs[job[r]].kind = "delete"
    BY <1>3, <2>2 DEF KeepsPlan
  <2>4. job[r] \in Jobs
    BY <1>3, <2>3, Held DEF DeletePcs, Holding
  <2> QED BY <2>3, <2>4
<1> QED BY <1>1, <1>2, <1>3, BaseInvariant, PTL DEF Spec, KeptSkillStays

-----------------------------------------------------------------------------
(* Ownership *)

LEMMA OwnsActive ==
  ASSUME Base, NEW r \in Runners, pc[r] \notin Idle, Owns(r)
  PROVE  job[r] \in Jobs /\ Active(job[r])
BY OwnedJob DEF Active, Running

LEMMA OneOwner ==
  ASSUME Base, OneActiveJob, NEW r \in Runners, NEW v \in Runners,
         pc[r] \notin Idle, pc[v] \notin Idle, Owns(r), Owns(v)
  PROVE  r = v
<1>1. job[r] = job[v]
  BY OwnsActive DEF OneActiveJob
<1> QED BY <1>1 DEF Owns

(* Who claims a job owns it; any other write of it leaves it without owner. *)
LEMMA TokenStep ==
  ASSUME Base, [Next]_vars, NEW j \in Jobs
  PROVE  \/ jobs'[j] = jobs[j]
         \/ jobs'[j].token = "nobody" \/ jobs'[j].lease = "expired"
         \/ \E r \in Runners : pc[r] = "polled" /\ pc'[r] = "load" /\ jobs'[j].token = r
<1> DEFINE Goal == \/ jobs'[j] = jobs[j]
                   \/ jobs'[j].token = "nobody" \/ jobs'[j].lease = "expired"
                   \/ \E r \in Runners : pc[r] = "polled" /\ pc'[r] = "load" /\ jobs'[j].token = r
<1>0. JobsOK
  BY DEF Base, TypeOK, JobsOK
<1>a. ASSUME NEW i \in Jobs, NEW s \in {"success", "failed"}, jobs' = Ended(i, s)
      PROVE  Goal
  BY <1>0, <1>a, EndedShape
<1>b. ASSUME NEW i \in Jobs, jobs' = [jobs EXCEPT ![i].lease = "expired"]
      PROVE  Goal
  BY <1>0, <1>b, ExpiredShape
<1> HIDE DEF Goal
<1>1. ASSUME NEW c \in Callers, Read(c) PROVE Goal
  BY <1>1 DEF Read, Goal
<1>2. ASSUME NEW c \in Callers, Refuse(c) PROVE Goal
  BY <1>2 DEF Refuse, Goal
<1>3. ASSUME NEW c \in Callers, NEW rev \in 1..MaxRev, NEW sync \in BOOLEAN, Edit(c, rev, sync)
      PROVE  Goal
  BY <1>3 DEF Edit, Goal
<1>4. ASSUME NEW c \in Callers, NEW kind \in {"sync", "delete"}, Submit(c, kind) PROVE Goal
  <2>1. PICK i \in Jobs : jobs' = [jobs EXCEPT ![i] = [UnbornJob EXCEPT !.kind = kind,
                                         !.rev = call[c].rev, !.status = "pending"]]
    BY <1>4 DEF Submit
  <2>2. jobs'[i].token = "nobody" /\ \A h \in Jobs \ {i} : jobs'[h] = jobs[h]
    BY <2>1, <1>0 DEF JobsOK, UnbornJob
  <2> QED BY <2>2 DEF Goal
<1>5. ASSUME NEW r \in Runners, BeforePoll(r) PROVE Goal
  BY <1>5, <1>a DEF BeforePoll, Goal
<1>6. ASSUME NEW r \in Runners, Claim(r) PROVE Goal
  <2>1. CASE UNCHANGED jobs
    BY <2>1 DEF Goal
  <2>2. ASSUME NEW i \in Jobs, pc' = [pc EXCEPT ![r] = "load"],
               jobs' = [jobs EXCEPT ![i].status = "syncing", ![i].lease = "held", ![i].token = r,
                                   ![i].attempts = @ + 1]
        PROVE  Goal
    <3>1. i # j => jobs'[j] = jobs[j]
      BY <2>2, <1>0 DEF JobsOK
    <3>2. i = j => jobs'[j].token = r
      BY <2>2, <1>0 DEF JobsOK, JobRecords
    <3>3. pc[r] = "polled" /\ pc'[r] = "load"
      BY <1>6, <2>2 DEF Claim, Base, TypeOK
    <3> QED BY <3>1, <3>2, <3>3 DEF Goal
  <2> QED BY <1>6, <2>1, <2>2 DEF Claim
<1>7. ASSUME NEW r \in Runners, Recover(r) PROVE Goal
  BY <1>7 DEF Recover, Goal
<1>8. ASSUME NEW r \in Runners, Load(r) PROVE Goal
  BY <1>8 DEF Load, Goal
<1>9. ASSUME NEW r \in Runners, Begin(r) PROVE Goal
  BY <1>9 DEF Begin, Advance, Goal
<1>10. ASSUME NEW r \in Runners, SaveSyncing(r) PROVE Goal
  BY <1>10 DEF SaveSyncing, Goal
<1>11. ASSUME NEW r \in Runners, Fetch(r) PROVE Goal
  BY <1>11 DEF Fetch, Advance, Goal
<1>12. ASSUME NEW r \in Runners, NEW op \in {"delete", "create", "update"},
             NEW k \in Skills, ApplySkill(r, op, k)
      PROVE  Goal
  BY <1>12 DEF ApplySkill, Goal
<1>13. ASSUME NEW r \in Runners, Finish(r) PROVE Goal
  <2>1. pc[r] \notin Idle
    BY <1>13 DEF Finish, Idle
  <2>2. job[r] \in Jobs
    BY <2>1 DEF Base, Equipped, Created
  <2> QED BY <1>13, <2>2, <1>a DEF Finish, Finalize, Goal
<1>14. ASSUME NEW r \in Runners, Reject(r) PROVE Goal
  <2>1. pc[r] \notin Idle
    BY <1>14 DEF Reject, Idle
  <2>2. job[r] \in Jobs
    BY <2>1 DEF Base, Equipped, Created
  <2> QED BY <1>14, <2>2, <1>a DEF Reject, Finalize, Goal
<1>15. ASSUME NEW r \in Runners, Orphan(r) PROVE Goal
  <2>1. pc[r] \notin Idle
    BY <1>15 DEF Orphan, Idle
  <2>2. job[r] \in Jobs
    BY <2>1 DEF Base, Equipped, Created
  <2> QED BY <1>15, <2>2, <1>a DEF Orphan, Finalize, Goal
<1>16. ASSUME NEW r \in Runners, Sweep(r) PROVE Goal
  BY <1>16 DEF Sweep, Goal
<1>17. ASSUME NEW r \in Runners, NEW k \in Skills, ClearSkill(r, k) PROVE Goal
  BY <1>17 DEF ClearSkill, Goal
<1>18. ASSUME NEW r \in Runners, FinishDelete(r) PROVE Goal
  <2>1. pc[r] \notin Idle
    BY <1>18 DEF FinishDelete, Cleared, Idle
  <2>2. job[r] \in Jobs
    BY <2>1 DEF Base, Equipped, Created
  <2> QED BY <1>18, <2>2, <1>a DEF FinishDelete, Finalize, Goal
<1>19. ASSUME NEW r \in Runners, GiveUp(r) PROVE Goal
  BY <1>19 DEF GiveUp, Goal
<1>20. ASSUME NEW r \in Runners, Undo(r) PROVE Goal
  <2>1. pc[r] \notin Idle
    BY <1>20 DEF Undo, Idle
  <2>2. job[r] \in Jobs
    BY <2>1 DEF Base, Equipped, Created
  <2> QED BY <1>20, <2>2, <1>a DEF Undo, Finalize, Goal
<1>21. ASSUME NEW r \in Runners, Record(r) PROVE Goal
  BY <1>21 DEF Record, EndWith, Goal
<1>22. ASSUME NEW r \in Runners, Bury(r) PROVE Goal
  BY <1>22 DEF Bury, EndWith, Goal
<1>23. ASSUME NEW r \in Runners, MarkFailed(r) PROVE Goal
  BY <1>23 DEF MarkFailed, EndWith, Goal
<1>24. ASSUME NEW r \in Runners, Restore(r) PROVE Goal
  BY <1>24 DEF Restore, EndWith, Goal
<1>25. ASSUME NEW r \in Runners, Crash(r) PROVE Goal
  <2>1. job[r] \in Jobs
    BY <1>25 DEF Crash, Base, Equipped, Created, Idle, Executing, Ending, Recovering
  <2> QED BY <1>25, <2>1, <1>b DEF Crash, Goal
<1>26. ASSUME NEW r \in Runners, LeaseLost(r) PROVE Goal
  BY <1>26 DEF LeaseLost, Goal
<1>27. ASSUME NEW r \in Runners, Stall(r) PROVE Goal
  <2>1. job[r] \in Jobs
    BY <1>27 DEF Stall, Base, Equipped, Created, Idle, Executing, Ending, Recovering
  <2> QED BY <1>27, <2>1, <1>b DEF Stall, Goal
<1>28. CASE UNCHANGED vars
  BY <1>28
  DEF vars, Goal
<1> QED BY <1>1, <1>2, <1>3, <1>4, <1>5, <1>6, <1>7, <1>8, <1>9, <1>10, <1>11, <1>12,
    <1>13, <1>14, <1>15, <1>16, <1>17, <1>18, <1>19, <1>20, <1>21, <1>22, <1>23, <1>24,
    <1>25, <1>26, <1>27, <1>28
  DEF Next, Call, Work, Fault, Goal

(* How a runner comes to where it is, and with which copy of the source. *)
Carrying == Holding \cap Executing
After(r) == pc[r] \in Ending \cup Recovering

Trail(v) ==
  /\ pc'[v] \in Executing => \/ pc[v] = "polled" /\ pc'[v] = "load"
                             \/ pc[v] \in Executing /\ job'[v] = job[v]
  /\ pc'[v] \in Carrying => \/ pc[v] \in Carrying /\ copy'[v] = copy[v]
                            \/ copy'[v].sync = "syncing"
                            \/ copy'[v] = source
  /\ pc'[v] = "failing" => /\ copy'[v] = copy[v]
                           /\ pc[v] = "failing" \/ (pc[v] = "reject" /\ Owns(v))
  /\ pc'[v] = "failingLate" => \/ pc[v] = "failingLate" /\ copy'[v] = copy[v]
                               \/ pc[v] = "recover" /\ copy'[v] = source
  /\ pc'[v] = "orphan" => pc[v] = "orphan" \/ (pc[v] = "load" /\ source.status = "deleted")
  /\ \/ copy'[v].status \in {copy[v].status, "none"}
     \/ copy'[v] = source /\ source.status # "deleted"

LEMMA TrailSame ==
  ASSUME NEW v \in Runners, pc'[v] = pc[v], job'[v] = job[v], copy'[v] = copy[v]
  PROVE  Trail(v)
BY DEF Trail, Carrying, Executing, Holding, Ending, Recovering

LEMMA TrailStep ==
  ASSUME Base, [Next]_vars, NEW v \in Runners
  PROVE  Trail(v)
<1>0. RunnerOK
  BY DEF Base, TypeOK, RunnerOK
<1>1. ASSUME NEW c \in Callers, Read(c) PROVE Trail(v)
  BY <1>1, TrailSame DEF Read, runner
<1>2. ASSUME NEW c \in Callers, Refuse(c) PROVE Trail(v)
  BY <1>2, TrailSame DEF Refuse, runner
<1>3. ASSUME NEW c \in Callers, NEW rev \in 1..MaxRev, NEW sync \in BOOLEAN, Edit(c, rev, sync)
      PROVE  Trail(v)
  BY <1>3, TrailSame DEF Edit, runner
<1>4. ASSUME NEW c \in Callers, NEW kind \in {"sync", "delete"}, Submit(c, kind) PROVE Trail(v)
  BY <1>4, TrailSame DEF Submit, runner
<1>5. ASSUME NEW r \in Runners, BeforePoll(r) PROVE Trail(v)
  <2>1. CASE v # r
    <3>1. pc'[v] = pc[v] /\ job'[v] = job[v] /\ copy'[v] = copy[v]
      BY <1>5, <2>1, <1>0
      DEF BeforePoll, Goto, RunnerOK, runner
    <3> QED BY <3>1, TrailSame
  <2>2. CASE v = r
    BY <1>5, <2>2, <1>0
    DEF BeforePoll, Goto, RunnerOK, Trail, Carrying, Holding, Executing, Ending,
      Recovering, runner, NoCopy
  <2> QED BY <2>1, <2>2
<1>6. ASSUME NEW r \in Runners, Claim(r) PROVE Trail(v)
  <2>1. CASE v # r
    <3>1. pc'[v] = pc[v] /\ job'[v] = job[v] /\ copy'[v] = copy[v]
      BY <1>6, <2>1, <1>0
      DEF Claim, Stop, RunnerOK, runner
    <3> QED BY <3>1, TrailSame
  <2>2. CASE v = r
    <3>1. CASE Stop(r)
      BY <2>2, <3>1, <1>0
      DEF Stop, RunnerOK, Trail, Carrying, Holding, Executing, Ending, Recovering, NoCopy
    <3>2. CASE ~Stop(r)
      <4>1. pc[v] = "polled" /\ pc'[v] = "load" /\ copy'[v] = copy[v]
        BY <1>6, <2>2, <3>2, <1>0 DEF Claim, RunnerOK
      <4> QED BY <4>1 DEF Trail, Carrying, Holding
    <3> QED BY <3>1, <3>2
  <2> QED BY <2>1, <2>2
<1>7. ASSUME NEW r \in Runners, Recover(r) PROVE Trail(v)
  <2>1. CASE v # r
    <3>1. pc'[v] = pc[v] /\ job'[v] = job[v] /\ copy'[v] = copy[v]
      BY <1>7, <2>1, <1>0
      DEF Recover, Leave, Stop, RunnerOK, runner
    <3> QED BY <3>1, TrailSame
  <2>2. CASE v = r
    BY <1>7, <2>2, <1>0
    DEF Recover, Leave, Stop, RunnerOK, Trail, Carrying, Holding, Executing, Ending,
      Recovering, runner, NoCopy
  <2> QED BY <2>1, <2>2
<1>8. ASSUME NEW r \in Runners, Load(r) PROVE Trail(v)
  <2>1. CASE v # r
    <3>1. pc'[v] = pc[v] /\ job'[v] = job[v] /\ copy'[v] = copy[v]
      BY <1>8, <2>1, <1>0
      DEF Load, RunnerOK, runner
    <3> QED BY <3>1, TrailSame
  <2>2. CASE v = r
    BY <1>8, <2>2, <1>0
    DEF Load, RunnerOK, Trail, Carrying, Holding, Executing, Ending, Recovering, runner,
      NoCopy
  <2> QED BY <2>1, <2>2
<1>9. ASSUME NEW r \in Runners, Begin(r) PROVE Trail(v)
  <2>1. CASE v # r
    <3>1. pc'[v] = pc[v] /\ job'[v] = job[v] /\ copy'[v] = copy[v]
      BY <1>9, <2>1, <1>0
      DEF Begin, Advance, Goto, Stop, RunnerOK, runner
    <3> QED BY <3>1, TrailSame
  <2>2. CASE v = r
    BY <1>9, <2>2, <1>0
    DEF Begin, Advance, Goto, Stop, RunnerOK, Trail, Carrying, Holding, Executing,
      Ending, Recovering, runner, NoCopy
  <2> QED BY <2>1, <2>2
<1>10. ASSUME NEW r \in Runners, SaveSyncing(r) PROVE Trail(v)
  <2>1. CASE v # r
    <3>1. pc'[v] = pc[v] /\ job'[v] = job[v] /\ copy'[v] = copy[v]
      BY <1>10, <2>1, <1>0
      DEF SaveSyncing, Overrun, RunnerOK, runner
    <3> QED BY <3>1, TrailSame
  <2>2. CASE v = r
    <3>1. /\ pc[v] = "save" /\ pc'[v] \in {"fetch", "reject"} /\ job'[v] = job[v]
          /\ copy[v] \in Sources
          /\ copy'[v] = copy[v] \/ copy'[v] = [copy[v] EXCEPT !.sync = "syncing"]
      BY <1>10, <2>2, <1>0, Held DEF SaveSyncing, RunnerOK, Holding
    <3>2. copy'[v] = copy[v] \/ (copy'[v].sync = "syncing" /\ copy'[v].status = copy[v].status)
      BY <3>1 DEF Sources
    <3> QED BY <3>1, <3>2 DEF Trail, Carrying, Holding, Executing
  <2> QED BY <2>1, <2>2
<1>11. ASSUME NEW r \in Runners, Fetch(r) PROVE Trail(v)
  <2>1. CASE v # r
    <3>1. pc'[v] = pc[v] /\ job'[v] = job[v] /\ copy'[v] = copy[v]
      BY <1>11, <2>1, <1>0
      DEF Fetch, Advance, Goto, Stop, RunnerOK, runner
    <3> QED BY <3>1, TrailSame
  <2>2. CASE v = r
    BY <1>11, <2>2, <1>0
    DEF Fetch, Advance, Goto, Stop, RunnerOK, Trail, Carrying, Holding, Executing,
      Ending, Recovering, runner, NoCopy
  <2> QED BY <2>1, <2>2
<1>12. ASSUME NEW r \in Runners, NEW op \in {"delete", "create", "update"},
             NEW k \in Skills, ApplySkill(r, op, k)
      PROVE  Trail(v)
  <2>1. CASE v # r
    <3>1. pc'[v] = pc[v] /\ job'[v] = job[v] /\ copy'[v] = copy[v]
      BY <1>12, <2>1, <1>0
      DEF ApplySkill, Overrun, RunnerOK, runner
    <3> QED BY <3>1, TrailSame
  <2>2. CASE v = r
    BY <1>12, <2>2, <1>0
    DEF ApplySkill, Overrun, RunnerOK, Trail, Carrying, Holding, Executing, Ending,
      Recovering, runner, NoCopy
  <2> QED BY <2>1, <2>2
<1>13. ASSUME NEW r \in Runners, Finish(r) PROVE Trail(v)
  <2>1. CASE v # r
    <3>1. pc'[v] = pc[v] /\ job'[v] = job[v] /\ copy'[v] = copy[v]
      BY <1>13, <2>1, <1>0
      DEF Finish, Finalize, Goto, Stop, RunnerOK, runner
    <3> QED BY <3>1, TrailSame
  <2>2. CASE v = r
    BY <1>13, <2>2, <1>0
    DEF Finish, Finalize, Goto, Stop, RunnerOK, Trail, Carrying, Holding, Executing,
      Ending, Recovering, runner, NoCopy
  <2> QED BY <2>1, <2>2
<1>14. ASSUME NEW r \in Runners, Reject(r) PROVE Trail(v)
  <2>1. CASE v # r
    <3>1. pc'[v] = pc[v] /\ job'[v] = job[v] /\ copy'[v] = copy[v]
      BY <1>14, <2>1, <1>0
      DEF Reject, Finalize, Goto, Stop, RunnerOK, runner
    <3> QED BY <3>1, TrailSame
  <2>2. CASE v = r
    BY <1>14, <2>2, <1>0
    DEF Reject, Finalize, Goto, Stop, RunnerOK, Trail, Carrying, Holding, Executing,
      Ending, Recovering, runner, NoCopy
  <2> QED BY <2>1, <2>2
<1>15. ASSUME NEW r \in Runners, Orphan(r) PROVE Trail(v)
  <2>1. CASE v # r
    <3>1. pc'[v] = pc[v] /\ job'[v] = job[v] /\ copy'[v] = copy[v]
      BY <1>15, <2>1, <1>0
      DEF Orphan, Finalize, Goto, Stop, RunnerOK, runner
    <3> QED BY <3>1, TrailSame
  <2>2. CASE v = r
    BY <1>15, <2>2, <1>0
    DEF Orphan, Finalize, Goto, Stop, RunnerOK, Trail, Carrying, Holding, Executing,
      Ending, Recovering, runner, NoCopy
  <2> QED BY <2>1, <2>2
<1>16. ASSUME NEW r \in Runners, Sweep(r) PROVE Trail(v)
  <2>1. CASE v # r
    <3>1. pc'[v] = pc[v] /\ job'[v] = job[v] /\ copy'[v] = copy[v]
      BY <1>16, <2>1, <1>0
      DEF Sweep, Stop, RunnerOK, runner
    <3> QED BY <3>1, TrailSame
  <2>2. CASE v = r
    BY <1>16, <2>2, <1>0
    DEF Sweep, Stop, RunnerOK, Trail, Carrying, Holding, Executing, Ending, Recovering,
      runner, NoCopy
  <2> QED BY <2>1, <2>2
<1>17. ASSUME NEW r \in Runners, NEW k \in Skills, ClearSkill(r, k) PROVE Trail(v)
  <2>1. CASE v # r
    <3>1. pc'[v] = pc[v] /\ job'[v] = job[v] /\ copy'[v] = copy[v]
      BY <1>17, <2>1, <1>0
      DEF ClearSkill, Overrun, RunnerOK, runner
    <3> QED BY <3>1, TrailSame
  <2>2. CASE v = r
    BY <1>17, <2>2, <1>0
    DEF ClearSkill, Overrun, RunnerOK, Trail, Carrying, Holding, Executing, Ending,
      Recovering, runner, NoCopy
  <2> QED BY <2>1, <2>2
<1>18. ASSUME NEW r \in Runners, FinishDelete(r) PROVE Trail(v)
  <2>1. CASE v # r
    <3>1. pc'[v] = pc[v] /\ job'[v] = job[v] /\ copy'[v] = copy[v]
      BY <1>18, <2>1, <1>0
      DEF FinishDelete, Cleared, Finalize, Goto, Stop, RunnerOK, runner
    <3> QED BY <3>1, TrailSame
  <2>2. CASE v = r
    BY <1>18, <2>2, <1>0
    DEF FinishDelete, Cleared, Finalize, Goto, Stop, RunnerOK, Trail, Carrying, Holding,
      Executing, Ending, Recovering, runner, NoCopy
  <2> QED BY <2>1, <2>2
<1>19. ASSUME NEW r \in Runners, GiveUp(r) PROVE Trail(v)
  <2>1. CASE v # r
    <3>1. pc'[v] = pc[v] /\ job'[v] = job[v] /\ copy'[v] = copy[v]
      BY <1>19, <2>1, <1>0
      DEF GiveUp, Goto, RunnerOK, runner
    <3> QED BY <3>1, TrailSame
  <2>2. CASE v = r
    BY <1>19, <2>2, <1>0
    DEF GiveUp, Goto, RunnerOK, Trail, Carrying, Holding, Executing, Ending, Recovering,
      runner, NoCopy
  <2> QED BY <2>1, <2>2
<1>20. ASSUME NEW r \in Runners, Undo(r) PROVE Trail(v)
  <2>1. CASE v # r
    <3>1. pc'[v] = pc[v] /\ job'[v] = job[v] /\ copy'[v] = copy[v]
      BY <1>20, <2>1, <1>0
      DEF Undo, Finalize, Goto, Stop, RunnerOK, runner
    <3> QED BY <3>1, TrailSame
  <2>2. CASE v = r
    BY <1>20, <2>2, <1>0
    DEF Undo, Finalize, Goto, Stop, RunnerOK, Trail, Carrying, Holding, Executing,
      Ending, Recovering, runner, NoCopy
  <2> QED BY <2>1, <2>2
<1>21. ASSUME NEW r \in Runners, Record(r) PROVE Trail(v)
  <2>1. CASE v # r
    <3>1. pc'[v] = pc[v] /\ job'[v] = job[v] /\ copy'[v] = copy[v]
      BY <1>21, <2>1, <1>0
      DEF Record, EndWith, Stop, RunnerOK, runner
    <3> QED BY <3>1, TrailSame
  <2>2. CASE v = r
    BY <1>21, <2>2, <1>0
    DEF Record, EndWith, Stop, RunnerOK, Trail, Carrying, Holding, Executing, Ending,
      Recovering, runner, NoCopy
  <2> QED BY <2>1, <2>2
<1>22. ASSUME NEW r \in Runners, Bury(r) PROVE Trail(v)
  <2>1. CASE v # r
    <3>1. pc'[v] = pc[v] /\ job'[v] = job[v] /\ copy'[v] = copy[v]
      BY <1>22, <2>1, <1>0
      DEF Bury, EndWith, Stop, RunnerOK, runner
    <3> QED BY <3>1, TrailSame
  <2>2. CASE v = r
    BY <1>22, <2>2, <1>0
    DEF Bury, EndWith, Stop, RunnerOK, Trail, Carrying, Holding, Executing, Ending,
      Recovering, runner, NoCopy
  <2> QED BY <2>1, <2>2
<1>23. ASSUME NEW r \in Runners, MarkFailed(r) PROVE Trail(v)
  <2>1. CASE v # r
    <3>1. pc'[v] = pc[v] /\ job'[v] = job[v] /\ copy'[v] = copy[v]
      BY <1>23, <2>1, <1>0
      DEF MarkFailed, EndWith, Leave, Stop, RunnerOK, runner
    <3> QED BY <3>1, TrailSame
  <2>2. CASE v = r
    BY <1>23, <2>2, <1>0
    DEF MarkFailed, EndWith, Leave, Stop, RunnerOK, Trail, Carrying, Holding, Executing,
      Ending, Recovering, runner, NoCopy
  <2> QED BY <2>1, <2>2
<1>24. ASSUME NEW r \in Runners, Restore(r) PROVE Trail(v)
  <2>1. CASE v # r
    <3>1. pc'[v] = pc[v] /\ job'[v] = job[v] /\ copy'[v] = copy[v]
      BY <1>24, <2>1, <1>0
      DEF Restore, EndWith, Leave, Stop, RunnerOK, runner
    <3> QED BY <3>1, TrailSame
  <2>2. CASE v = r
    BY <1>24, <2>2, <1>0
    DEF Restore, EndWith, Leave, Stop, RunnerOK, Trail, Carrying, Holding, Executing,
      Ending, Recovering, runner, NoCopy
  <2> QED BY <2>1, <2>2
<1>25. ASSUME NEW r \in Runners, Crash(r) PROVE Trail(v)
  <2>1. CASE v # r
    <3>1. pc'[v] = pc[v] /\ job'[v] = job[v] /\ copy'[v] = copy[v]
      BY <1>25, <2>1, <1>0
      DEF Crash, Stop, Dropped, RunnerOK, runner
    <3> QED BY <3>1, TrailSame
  <2>2. CASE v = r
    BY <1>25, <2>2, <1>0
    DEF Crash, Stop, Dropped, RunnerOK, Trail, Carrying, Holding, Executing, Ending,
      Recovering, runner, NoCopy
  <2> QED BY <2>1, <2>2
<1>26. ASSUME NEW r \in Runners, LeaseLost(r) PROVE Trail(v)
  <2>1. CASE v # r
    <3>1. pc'[v] = pc[v] /\ job'[v] = job[v] /\ copy'[v] = copy[v]
      BY <1>26, <2>1, <1>0
      DEF LeaseLost, Stop, Dropped, RunnerOK, runner
    <3> QED BY <3>1, TrailSame
  <2>2. CASE v = r
    BY <1>26, <2>2, <1>0
    DEF LeaseLost, Stop, Dropped, RunnerOK, Trail, Carrying, Holding, Executing, Ending,
      Recovering, runner, NoCopy
  <2> QED BY <2>1, <2>2
<1>27. ASSUME NEW r \in Runners, Stall(r) PROVE Trail(v)
  <2>1. CASE v # r
    <3>1. pc'[v] = pc[v] /\ job'[v] = job[v] /\ copy'[v] = copy[v]
      BY <1>27, <2>1, <1>0
      DEF Stall, RunnerOK, runner
    <3> QED BY <3>1, TrailSame
  <2>2. CASE v = r
    BY <1>27, <2>2, <1>0
    DEF Stall, RunnerOK, Trail, Carrying, Holding, Executing, Ending, Recovering,
      runner, NoCopy
  <2> QED BY <2>1, <2>2
<1>28. CASE UNCHANGED vars
  BY <1>28, TrailSame DEF vars, runner
<1> QED BY <1>1, <1>2, <1>3, <1>4, <1>5, <1>6, <1>7, <1>8, <1>9, <1>10, <1>11, <1>12,
    <1>13, <1>14, <1>15, <1>16, <1>17, <1>18, <1>19, <1>20, <1>21, <1>22, <1>23, <1>24,
    <1>25, <1>26, <1>27, <1>28
  DEF Next, Call, Work, Fault

LEMMA OwnsStep ==
  ASSUME Base, [Next]_vars, NEW v \in Runners, pc'[v] \in Executing, Owns(v)'
  PROVE  \/ pc[v] = "polled" /\ pc'[v] = "load"
         \/ pc[v] \in Executing /\ job'[v] = job[v] /\ Owns(v)
<1>1. CASE pc[v] = "polled" /\ pc'[v] = "load"
  BY <1>1
<1>2. CASE pc[v] \in Executing /\ job'[v] = job[v]
  <2>1. job[v] \in Jobs /\ v # "nobody"
    BY <1>2, NobodyAssumption DEF Base, Equipped, Created, Idle, Executing
  <2>2. jobs'[job[v]].token = v /\ jobs'[job[v]].lease = "held"
    BY <1>2 DEF Owns
  <2>3. CASE jobs'[job[v]] = jobs[job[v]]
    BY <1>2, <2>2, <2>3 DEF Owns
  <2>4. CASE \E r \in Runners : pc[r] = "polled" /\ pc'[r] = "load" /\ jobs'[job[v]].token = r
    BY <2>2, <2>4
  <2> QED BY <2>1, <2>2, <2>3, <2>4, TokenStep
<1> QED BY <1>1, <1>2, TrailStep DEF Trail

-----------------------------------------------------------------------------
(* The source and its job: while no call saved a stale source and no       *)
(* execution outlived its lease,                                           *)

Sound == causes \subseteq {"unrecorded"}
Busy == (\E j \in Jobs : Active(j)) \/ \E r \in Runners : After(r)

(* a source that is worked on says so; *)
BusyIsMarked == Sound /\ Busy => source.sync \in Running
(* one that says so is worked on, unless an outcome was never saved; *)
MarkedIsBusy == causes = {} /\ source.sync \in Running => Busy
(* one outcome at a time is on its way, and no job is active meanwhile; *)
OneAfter ==
  Sound => \A r \in Runners : After(r) => NoActiveJob /\ \A v \in Runners : After(v) => v = r
(* who holds a job, or reports that it failed, read the source meanwhile; *)
CarriesRunning == Sound => \A r \in Runners : pc[r] \in Carrying /\ Owns(r) => copy[r].sync \in Running
FailsRunning ==
  Sound => \A r \in Runners : pc[r] \in {"failing", "failingLate"} => copy[r].sync \in Running
(* and a source that is deleted is at rest. *)
OrphanIsLost == Sound => \A r \in Runners : pc[r] = "orphan" => ~Owns(r)
DeletedRests ==
  /\ source.status = "deleted" => source.sync \notin Running
  /\ \A r \in Runners : copy[r].status # "deleted"

Agreement ==
  /\ OneActiveJob /\ BusyIsMarked /\ MarkedIsBusy /\ OneAfter
  /\ CarriesRunning /\ FailsRunning /\ OrphanIsLost /\ DeletedRests

LEMMA CausesStep ==
  ASSUME [Next]_vars
  PROVE  causes \subseteq causes'
<1>1. ASSUME NEW c \in Callers, Read(c) PROVE causes \subseteq causes'
  BY <1>1
  DEF Read
<1>2. ASSUME NEW c \in Callers, Refuse(c) PROVE causes \subseteq causes'
  BY <1>2
  DEF Refuse
<1>3. ASSUME NEW c \in Callers, NEW rev \in 1..MaxRev, NEW sync \in BOOLEAN, Edit(c, rev, sync)
      PROVE  causes \subseteq causes'
  BY <1>3
  DEF Edit, CallerSaves
<1>4. ASSUME NEW c \in Callers, NEW kind \in {"sync", "delete"}, Submit(c, kind)
      PROVE  causes \subseteq causes'
  BY <1>4
  DEF Submit, CallerSaves
<1>5. ASSUME NEW r \in Runners, BeforePoll(r) PROVE causes \subseteq causes'
  BY <1>5
  DEF BeforePoll
<1>6. ASSUME NEW r \in Runners, Claim(r) PROVE causes \subseteq causes'
  BY <1>6
  DEF Claim
<1>7. ASSUME NEW r \in Runners, Recover(r) PROVE causes \subseteq causes'
  BY <1>7
  DEF Recover
<1>8. ASSUME NEW r \in Runners, Load(r) PROVE causes \subseteq causes'
  BY <1>8
  DEF Load
<1>9. ASSUME NEW r \in Runners, Begin(r) PROVE causes \subseteq causes'
  BY <1>9
  DEF Begin, Advance
<1>10. ASSUME NEW r \in Runners, SaveSyncing(r) PROVE causes \subseteq causes'
  BY <1>10
  DEF SaveSyncing, Overrun
<1>11. ASSUME NEW r \in Runners, Fetch(r) PROVE causes \subseteq causes'
  BY <1>11
  DEF Fetch, Advance
<1>12. ASSUME NEW r \in Runners, NEW op \in {"delete", "create", "update"},
             NEW k \in Skills, ApplySkill(r, op, k)
      PROVE  causes \subseteq causes'
  BY <1>12
  DEF ApplySkill, Overrun
<1>13. ASSUME NEW r \in Runners, Finish(r) PROVE causes \subseteq causes'
  BY <1>13
  DEF Finish, Finalize
<1>14. ASSUME NEW r \in Runners, Reject(r) PROVE causes \subseteq causes'
  BY <1>14
  DEF Reject, Finalize
<1>15. ASSUME NEW r \in Runners, Orphan(r) PROVE causes \subseteq causes'
  BY <1>15
  DEF Orphan, Finalize
<1>16. ASSUME NEW r \in Runners, Sweep(r) PROVE causes \subseteq causes'
  BY <1>16
  DEF Sweep
<1>17. ASSUME NEW r \in Runners, NEW k \in Skills, ClearSkill(r, k)
      PROVE  causes \subseteq causes'
  BY <1>17
  DEF ClearSkill, Overrun
<1>18. ASSUME NEW r \in Runners, FinishDelete(r) PROVE causes \subseteq causes'
  BY <1>18
  DEF FinishDelete, Cleared, Finalize
<1>19. ASSUME NEW r \in Runners, GiveUp(r) PROVE causes \subseteq causes'
  BY <1>19
  DEF GiveUp
<1>20. ASSUME NEW r \in Runners, Undo(r) PROVE causes \subseteq causes'
  BY <1>20
  DEF Undo, Finalize
<1>21. ASSUME NEW r \in Runners, Record(r) PROVE causes \subseteq causes'
  BY <1>21
  DEF Record, EndWith
<1>22. ASSUME NEW r \in Runners, Bury(r) PROVE causes \subseteq causes'
  BY <1>22
  DEF Bury, EndWith
<1>23. ASSUME NEW r \in Runners, MarkFailed(r) PROVE causes \subseteq causes'
  BY <1>23
  DEF MarkFailed, EndWith
<1>24. ASSUME NEW r \in Runners, Restore(r) PROVE causes \subseteq causes'
  BY <1>24
  DEF Restore, EndWith
<1>25. ASSUME NEW r \in Runners, Crash(r) PROVE causes \subseteq causes'
  BY <1>25
  DEF Crash, Dropped
<1>26. ASSUME NEW r \in Runners, LeaseLost(r) PROVE causes \subseteq causes'
  BY <1>26
  DEF LeaseLost, Dropped
<1>27. ASSUME NEW r \in Runners, Stall(r) PROVE causes \subseteq causes'
  BY <1>27
  DEF Stall
<1>28. CASE UNCHANGED vars
  BY <1>28
  DEF vars
<1> QED BY <1>1, <1>2, <1>3, <1>4, <1>5, <1>6, <1>7, <1>8, <1>9, <1>10, <1>11, <1>12,
    <1>13, <1>14, <1>15, <1>16, <1>17, <1>18, <1>19, <1>20, <1>21, <1>22, <1>23, <1>24,
    <1>25, <1>26, <1>27, <1>28
  DEF Next, Call, Work, Fault

(* What a step may do to jobs, outcomes and the source, seen from afar. *)
Same(j) == Active(j)' <=> Active(j)
SameAfter(r) == After(r)' <=> After(r)
Keeps ==
  /\ \A j \in Jobs : Same(j)
  /\ \A r \in Runners : SameAfter(r)
  /\ source'.sync \in Running <=> source.sync \in Running
Closes(j, r) ==
  /\ Active(j) /\ ~Active(j)' /\ \A i \in Jobs \ {j} : Same(i)
  /\ After(r)' /\ \A v \in Runners \ {r} : SameAfter(v)
  /\ source' = source
Opens(j) ==
  /\ Active(j)' /\ \A i \in Jobs \ {j} : Same(i)
  /\ \A r \in Runners : SameAfter(r)
  /\ source.sync \notin Running /\ source'.sync \in Running
Settles(r) ==
  /\ \A j \in Jobs : Same(j)
  /\ After(r) /\ ~After(r)' /\ \A v \in Runners \ {r} : SameAfter(v)
  /\ source'.sync \notin Running \/ (source' = source /\ "unrecorded" \in causes')
Course ==
  \/ Keeps
  \/ \E j \in Jobs, r \in Runners : Closes(j, r)
  \/ \E j \in Jobs : Opens(j)
  \/ \E r \in Runners : Settles(r)

LEMMA ActiveKept ==
  ASSUME Base, NEW i \in Jobs, jobs' = [jobs EXCEPT ![i].lease = "expired"]
  PROVE  \A j \in Jobs : Same(j)
BY ExpiredShape DEF Base, TypeOK, JobsOK, Same, Active

LEMMA ActiveEnds ==
  ASSUME Base, NEW i \in Jobs, NEW s \in {"success", "failed"}, jobs' = Ended(i, s)
  PROVE  ~Active(i)' /\ \A j \in Jobs \ {i} : Same(j)
BY EndedShape DEF Base, TypeOK, JobsOK, Same, Active, Running

LEMMA CourseKeeps ==
  ASSUME NEW r \in Runners, UNCHANGED <<jobs, source>>, SameAfter(r),
         \A v \in Runners \ {r} : pc'[v] = pc[v]
  PROVE  Course
BY DEF Course, Keeps, Same, Active, SameAfter, After

LEMMA FinalizeCourse ==
  ASSUME Base, NEW r \in Runners, pc[r] \in Executing, NEW s \in {"success", "failed"},
         NEW state \in Ending, Finalize(r, s, state)
  PROVE  Course
<1>0. RunnerOK /\ JobsOK /\ pc[r] \notin Idle /\ ~After(r)
  BY DEF Base, TypeOK, RunnerOK, JobsOK, Executing, Idle, After, Ending, Recovering
<1>1. CASE Owns(r)
  <2>1. PICK j \in Jobs : j = job[r] /\ Active(j)
    BY <1>0, <1>1, OwnsActive
  <2>2. ~Active(j)' /\ \A i \in Jobs \ {j} : Same(i)
    BY <1>1, <2>1, ActiveEnds DEF Finalize
  <2>3. After(r)' /\ \A v \in Runners \ {r} : SameAfter(v)
    BY <1>0, <1>1 DEF Finalize, Goto, RunnerOK, After, SameAfter
  <2>4. Closes(j, r)
    BY <2>1, <2>2, <2>3 DEF Closes, Finalize
  <2> QED BY <2>1, <2>4 DEF Course
<1>2. CASE ~Owns(r)
  <2>1. UNCHANGED <<jobs, source>> /\ Stop(r)
    BY <1>2 DEF Finalize
  <2>2. pc'[r] = "idle" /\ \A v \in Runners \ {r} : pc'[v] = pc[v]
    BY <1>0, <2>1, StopShape
  <2>3. SameAfter(r)
    BY <1>0, <2>2 DEF SameAfter, After, Ending, Recovering
  <2> QED BY <2>1, <2>2, <2>3, CourseKeeps
<1> QED BY <1>1, <1>2

(* An outcome that is saved, or lost. *)
LEMMA EndCourse ==
  ASSUME Base, NEW r \in Runners, After(r), NEW s, s.sync \notin Running, EndWith(r, s), Leave(r)
  PROVE  Course
<1>1. pc'[r] \in Idle /\ \A v \in Runners \ {r} : pc'[v] = pc[v]
  BY LeaveShape DEF Base, TypeOK, RunnerOK
<1>2. ~After(r)' /\ \A v \in Runners \ {r} : SameAfter(v)
  BY <1>1 DEF SameAfter, After, Ending, Recovering, Idle
<1>3. \A j \in Jobs : Same(j)
  BY DEF EndWith, Same, Active
<1>4. source'.sync \notin Running \/ (source' = source /\ "unrecorded" \in causes')
  BY DEF EndWith
<1>5. Settles(r)
  BY <1>2, <1>3, <1>4 DEF Settles
<1> QED BY <1>5 DEF Course

LEMMA CourseStep ==
  ASSUME Base, Agreement, [Next]_vars, Sound'
  PROVE  Course
<1>0. RunnerOK /\ Sound /\ source \in Sources
  BY CausesStep DEF Base, TypeOK, RunnerOK, Sound
<1>1. ASSUME NEW c \in Callers, Read(c) PROVE Course
  BY <1>1 DEF Read, runner, Course, Keeps, Same, SameAfter, Active, After
<1>2. ASSUME NEW c \in Callers, Refuse(c) PROVE Course
  BY <1>2 DEF Refuse, runner, Course, Keeps, Same, SameAfter, Active, After
<1>3. ASSUME NEW c \in Callers, NEW rev \in 1..MaxRev, NEW sync \in BOOLEAN, Edit(c, rev, sync)
      PROVE  Course
  <2>1. call[c] = source /\ source' = [call[c] EXCEPT !.rev = rev]
    BY <1>3, Sound' DEF Edit, CallerSaves, Sound
  <2>2. source'.sync = source.sync
    BY <1>0, <2>1 DEF Sources
  <2> QED BY <1>3, <2>2 DEF Edit, runner, Course, Keeps, Same, SameAfter, Active, After
<1>4. ASSUME NEW c \in Callers, NEW kind \in {"sync", "delete"}, Submit(c, kind) PROVE Course
  <2>1. call[c] = source /\ source.sync \notin Running
    BY <1>4, Sound' DEF Submit, CallerSaves, Sound
  <2>2. source'.sync = "pending"
    BY <1>4, <1>0, <2>1 DEF Submit, CallerSaves, Sources
  <2>3. PICK j \in Jobs : jobs' = [jobs EXCEPT ![j] = [UnbornJob EXCEPT !.kind = kind,
                                         !.rev = call[c].rev, !.status = "pending"]]
    BY <1>4 DEF Submit
  <2>4. jobs'[j].status = "pending" /\ \A i \in Jobs \ {j} : jobs'[i] = jobs[i]
    BY <2>3 DEF Base, TypeOK, UnbornJob
  <2>5. Active(j)' /\ \A i \in Jobs \ {j} : Same(i)
    BY <2>4 DEF Active, Running, Same
  <2>6. \A r \in Runners : SameAfter(r)
    BY <1>4 DEF Submit, runner, SameAfter, After
  <2> QED BY <2>1, <2>2, <2>5, <2>6 DEF Course, Opens, Running
<1>5. ASSUME NEW r \in Runners, BeforePoll(r) PROVE Course
  <2>1. CASE UNCHANGED jobs /\ Goto(r, "polled")
    <3>1. SameAfter(r) /\ \A v \in Runners \ {r} : pc'[v] = pc[v]
      BY <1>5, <1>0, <2>1 DEF BeforePoll, Goto, RunnerOK, SameAfter, After, Ending, Recovering
    <3> QED BY <1>5, <2>1, <3>1, CourseKeeps DEF BeforePoll
  <2>2. ASSUME NEW j \in Jobs, Exhausted(j), jobs' = Ended(j, "failed"),
               pc' = [pc EXCEPT ![r] = "recover"]
        PROVE  Course
    <3>1. Active(j) /\ ~Active(j)' /\ \A i \in Jobs \ {j} : Same(i)
      BY <2>2, EndedShape DEF Base, TypeOK, JobsOK, Exhausted, Active, Running, Same
    <3>2. After(r)' /\ \A v \in Runners \ {r} : SameAfter(v)
      BY <1>0, <2>2 DEF RunnerOK, SameAfter, After, Recovering
    <3> QED BY <1>5, <3>1, <3>2 DEF BeforePoll, Closes, Course
  <2> QED BY <1>5, <2>1, <2>2 DEF BeforePoll
<1>6. ASSUME NEW r \in Runners, Claim(r) PROVE Course
  <2>1. \A j \in Jobs : Same(j)
    <3>1. ASSUME NEW j \in Jobs, Claimable(j),
                 jobs' = [jobs EXCEPT ![j].status = "syncing", ![j].lease = "held", ![j].token = r,
                                     ![j].attempts = @ + 1]
          PROVE  \A i \in Jobs : Same(i)
      <4>1. jobs'[j].status = "syncing" /\ \A i \in Jobs \ {j} : jobs'[i] = jobs[i]
        BY <3>1 DEF Base, TypeOK, JobRecords
      <4>2. Active(j) /\ Active(j)'
        BY <3>1, <4>1 DEF Claimable, Active, Running
      <4> QED BY <4>1, <4>2 DEF Same, Active
    <3>2. CASE UNCHANGED jobs
      BY <3>2 DEF Same, Active
    <3> QED BY <1>6, <3>1, <3>2 DEF Claim
  <2>2. pc[r] = "polled" /\ pc'[r] \in {"idle", "load"} /\ \A v \in Runners \ {r} : pc'[v] = pc[v]
    BY <1>6, <1>0 DEF Claim, Stop, RunnerOK
  <2>3. \A v \in Runners : SameAfter(v)
    BY <2>2 DEF SameAfter, After, Ending, Recovering
  <2> QED BY <1>6, <2>1, <2>3 DEF Claim, Course, Keeps
<1>7. ASSUME NEW r \in Runners, Recover(r) PROVE Course
  <2>1. CASE source.status = "deleted"
    <3>1. Leave(r) /\ After(r) /\ UNCHANGED <<source, jobs, causes>>
      BY <1>7, <2>1 DEF Recover, After, Recovering
    <3>2. pc'[r] \in Idle /\ \A v \in Runners \ {r} : pc'[v] = pc[v]
      BY <1>0, <3>1, LeaveShape
    <3>3. ~After(r)' /\ \A v \in Runners \ {r} : SameAfter(v)
      BY <3>2 DEF SameAfter, After, Ending, Recovering, Idle
    <3>4. source'.sync \notin Running
      BY <2>1, <3>1 DEF Agreement, DeletedRests
    <3>5. Settles(r)
      BY <3>1, <3>3, <3>4 DEF Settles, Same, Active
    <3> QED BY <3>5 DEF Course
  <2>2. CASE source.status # "deleted"
    <3>1. SameAfter(r) /\ \A v \in Runners \ {r} : pc'[v] = pc[v]
      BY <1>7, <1>0, <2>2 DEF Recover, RunnerOK, SameAfter, After, Ending, Recovering
    <3> QED BY <1>7, <3>1, CourseKeeps DEF Recover
  <2> QED BY <2>1, <2>2
<1>8. ASSUME NEW r \in Runners, Load(r) PROVE Course
  <2>1. SameAfter(r) /\ \A v \in Runners \ {r} : pc'[v] = pc[v]
    BY <1>8, <1>0
    DEF Load, RunnerOK, After, SameAfter, Ending, Recovering
  <2> QED BY <1>8, <2>1, CourseKeeps DEF Load
<1>9. ASSUME NEW r \in Runners, Begin(r) PROVE Course
  <2>1. SameAfter(r) /\ \A v \in Runners \ {r} : pc'[v] = pc[v]
    BY <1>9, <1>0
    DEF Begin, Advance, Goto, Stop, RunnerOK, After, SameAfter, Ending, Recovering
  <2> QED BY <1>9, <2>1, CourseKeeps DEF Begin, Advance
<1>10. ASSUME NEW r \in Runners, SaveSyncing(r) PROVE Course
  <2>1. SameAfter(r) /\ (\A v \in Runners \ {r} : pc'[v] = pc[v]) /\ UNCHANGED jobs
    BY <1>10, <1>0 DEF SaveSyncing, RunnerOK, SameAfter, After, Ending, Recovering
  <2>2. CASE source' = source
    BY <2>1, <2>2, CourseKeeps
  <2>3. CASE source' # source
    <3>0. copy[r] \in Sources /\ copy'[r] = [copy[r] EXCEPT !.sync = "syncing"]
      BY <1>10, <1>0, <2>3, Held DEF SaveSyncing, RunnerOK, Holding
    <3>1. source' = [copy[r] EXCEPT !.sync = "syncing"] /\ Owns(r) /\ copy[r] \in Sources
      BY <1>10, <2>3, <3>0, Sound' DEF SaveSyncing, Overrun, Sound
    <3>2. source'.sync \in Running
      BY <3>1 DEF Sources, Running
    <3>3. source.sync \in Running
      BY <1>10, <1>0, <3>1, OwnsActive DEF SaveSyncing, Agreement, BusyIsMarked, Busy, Idle
    <3> QED BY <2>1, <3>2, <3>3 DEF Course, Keeps, Same, SameAfter, Active, After
  <2> QED BY <2>2, <2>3
<1>11. ASSUME NEW r \in Runners, Fetch(r) PROVE Course
  <2>1. SameAfter(r) /\ \A v \in Runners \ {r} : pc'[v] = pc[v]
    BY <1>11, <1>0
    DEF Fetch, Advance, Goto, Stop, RunnerOK, After, SameAfter, Ending, Recovering
  <2> QED BY <1>11, <2>1, CourseKeeps DEF Fetch, Advance
<1>12. ASSUME NEW r \in Runners, NEW op \in {"delete", "create", "update"},
             NEW k \in Skills, ApplySkill(r, op, k)
      PROVE  Course
  <2>1. SameAfter(r) /\ \A v \in Runners \ {r} : pc'[v] = pc[v]
    BY <1>12, <1>0
    DEF ApplySkill, RunnerOK, After, SameAfter, Ending, Recovering
  <2> QED BY <1>12, <2>1, CourseKeeps DEF ApplySkill
<1>13. ASSUME NEW r \in Runners, Finish(r) PROVE Course
  BY <1>13, FinalizeCourse DEF Finish, Executing, Ending
<1>14. ASSUME NEW r \in Runners, Reject(r) PROVE Course
  BY <1>14, FinalizeCourse DEF Reject, Executing, Ending
<1>15. ASSUME NEW r \in Runners, Orphan(r) PROVE Course
  <2>1. Stop(r) /\ UNCHANGED <<jobs, source>> /\ pc[r] = "orphan"
    BY <1>15, <1>0 DEF Orphan, Finalize, Agreement, OrphanIsLost
  <2>2. SameAfter(r) /\ \A v \in Runners \ {r} : pc'[v] = pc[v]
    BY <1>0, <2>1 DEF Stop, RunnerOK, SameAfter, After, Ending, Recovering
  <2> QED BY <2>1, <2>2, CourseKeeps
<1>16. ASSUME NEW r \in Runners, Sweep(r) PROVE Course
  <2>1. SameAfter(r) /\ \A v \in Runners \ {r} : pc'[v] = pc[v]
    BY <1>16, <1>0
    DEF Sweep, Stop, RunnerOK, After, SameAfter, Ending, Recovering
  <2> QED BY <1>16, <2>1, CourseKeeps DEF Sweep
<1>17. ASSUME NEW r \in Runners, NEW k \in Skills, ClearSkill(r, k) PROVE Course
  <2>1. SameAfter(r) /\ \A v \in Runners \ {r} : pc'[v] = pc[v]
    BY <1>17, <1>0
    DEF ClearSkill, RunnerOK, After, SameAfter, Ending, Recovering
  <2> QED BY <1>17, <2>1, CourseKeeps DEF ClearSkill
<1>18. ASSUME NEW r \in Runners, FinishDelete(r) PROVE Course
  BY <1>18, FinalizeCourse DEF FinishDelete, Cleared, Executing, Ending
<1>19. ASSUME NEW r \in Runners, GiveUp(r) PROVE Course
  <2>1. SameAfter(r) /\ \A v \in Runners \ {r} : pc'[v] = pc[v]
    BY <1>19, <1>0
    DEF GiveUp, Goto, RunnerOK, After, SameAfter, Ending, Recovering
  <2> QED BY <1>19, <2>1, CourseKeeps DEF GiveUp
<1>20. ASSUME NEW r \in Runners, Undo(r) PROVE Course
  BY <1>20, FinalizeCourse DEF Undo, Executing, Ending
<1>21. ASSUME NEW r \in Runners, Record(r) PROVE Course
  <2>1. After(r) /\ copy[r] \in Sources
    BY <1>21, Held DEF Record, After, Ending, Recovering, Holding
  <2>2. Recorded(r).sync \notin Running /\ [Recorded(r) EXCEPT !.sync = "failed"].sync \notin Running
    BY <2>1 DEF Recorded, Sources, Running
  <2> QED BY <1>21, <2>1, <2>2, EndCourse DEF Record, Leave
<1>22. ASSUME NEW r \in Runners, Bury(r) PROVE Course
  <2>1. After(r) /\ copy[r] \in Sources
    BY <1>22, Held DEF Bury, After, Ending, Recovering, Holding
  <2>2. Buried(r).sync \notin Running /\ [Restored(r) EXCEPT !.last = job[r]].sync \notin Running
    BY <2>1 DEF Buried, Restored, Sources, Running
  <2> QED BY <1>22, <2>1, <2>2, EndCourse DEF Bury, Leave
<1>23. ASSUME NEW r \in Runners, MarkFailed(r) PROVE Course
  <2>1. After(r) /\ copy[r] \in Sources
    BY <1>23, Held DEF MarkFailed, After, Ending, Recovering, Holding
  <2>2. copy[r].sync \in Running
    BY <1>23, <1>0 DEF MarkFailed, Agreement, FailsRunning
  <2>3. Failed(r).sync \notin Running
    BY <2>1 DEF Failed, Sources, Running
  <2> QED BY <1>23, <2>1, <2>2, <2>3, EndCourse DEF MarkFailed
<1>24. ASSUME NEW r \in Runners, Restore(r) PROVE Course
  <2>1. After(r) /\ copy[r] \in Sources
    BY <1>24, Held DEF Restore, After, Ending, Recovering, Holding
  <2>2. Restored(r).sync \notin Running
    BY <2>1 DEF Restored, Sources, Running
  <2> QED BY <1>24, <2>1, <2>2, EndCourse DEF Restore
<1>25. ASSUME NEW r \in Runners, Crash(r) PROVE Course
  <2>1. \A j \in Jobs : Same(j)
    <3>1. CASE Owns(r)
      <4>1. job[r] \in Jobs
        BY <1>25, <3>1 DEF Crash, Base, Equipped, Created, Idle, Executing, Ending, Recovering
      <4> QED BY <1>25, <3>1, <4>1, ActiveKept DEF Crash
    <3> QED BY <1>25, <3>1 DEF Crash, Same, Active
  <2>2. ~After(r)' /\ \A v \in Runners \ {r} : SameAfter(v)
    BY <1>25, <1>0 DEF Crash, Stop, RunnerOK, SameAfter, After, Ending, Recovering
  <2>3. source' = source /\ (After(r) => "unrecorded" \in causes')
    BY <1>25 DEF Crash, Dropped, After
  <2>4. CASE After(r)
    BY <2>1, <2>2, <2>3, <2>4 DEF Course, Settles
  <2>5. CASE ~After(r)
    BY <2>1, <2>2, <2>3, <2>5 DEF Course, Keeps, SameAfter
  <2> QED BY <2>4, <2>5
<1>26. ASSUME NEW r \in Runners, LeaseLost(r) PROVE Course
  <2>1. \A j \in Jobs : Same(j)
    BY <1>26 DEF LeaseLost, Same, Active
  <2>2. ~After(r)' /\ \A v \in Runners \ {r} : SameAfter(v)
    BY <1>26, <1>0 DEF LeaseLost, Stop, RunnerOK, SameAfter, After, Ending, Recovering
  <2>3. source' = source /\ (After(r) => "unrecorded" \in causes')
    BY <1>26 DEF LeaseLost, Dropped, After
  <2>4. CASE After(r)
    BY <2>1, <2>2, <2>3, <2>4 DEF Course, Settles
  <2>5. CASE ~After(r)
    BY <2>1, <2>2, <2>3, <2>5 DEF Course, Keeps, SameAfter
  <2> QED BY <2>4, <2>5
<1>27. ASSUME NEW r \in Runners, Stall(r) PROVE Course
  <2>1. job[r] \in Jobs
    BY <1>27 DEF Stall, Base, Equipped, Created, Idle, Executing
  <2>2. \A j \in Jobs : Same(j)
    BY <1>27, <2>1, ActiveKept DEF Stall
  <2> QED BY <1>27, <2>2 DEF Stall, runner, Course, Keeps, SameAfter, After
<1>28. CASE UNCHANGED vars
  BY <1>28 DEF vars, runner, Course, Keeps, Same, SameAfter, Active, After
<1> QED BY <1>1, <1>2, <1>3, <1>4, <1>5, <1>6, <1>7, <1>8, <1>9, <1>10, <1>11, <1>12,
    <1>13, <1>14, <1>15, <1>16, <1>17, <1>18, <1>19, <1>20, <1>21, <1>22, <1>23, <1>24,
    <1>25, <1>26, <1>27, <1>28
  DEF Next, Call, Work, Fault

LEMMA DeletedRestsStep ==
  ASSUME Base, DeletedRests, [Next]_vars
  PROVE  /\ DeletedRests'
         /\ source'.status = "deleted" =>
              source' = source \/ \E r \in Runners : pc[r] = "bury" /\ skills' = skills
<1> DEFINE Goal == source'.status = "deleted" =>
                     /\ source'.sync \notin Running
                     /\ source' = source \/ \E r \in Runners : pc[r] = "bury" /\ skills' = skills
<1>0. /\ source \in Sources /\ (source.status = "deleted" => source.sync \notin Running)
      /\ \A r \in Runners : copy[r].status # "deleted"
  BY DEF DeletedRests, Base, TypeOK
<1>a. source' = source => Goal
  BY <1>0
<1>b. (source'.status # "deleted") => Goal
  OBVIOUS
<1>c. Goal
  <2>1. ASSUME NEW c \in Callers, Read(c) PROVE Goal
    BY <2>1, <1>a
    DEF Read
  <2>2. ASSUME NEW c \in Callers, Refuse(c) PROVE Goal
    BY <2>2, <1>a
    DEF Refuse
  <2>3. ASSUME NEW c \in Callers, NEW rev \in 1..MaxRev, NEW sync \in BOOLEAN, Edit(c, rev, sync)
        PROVE  Goal
    <3>1. call[c] \in Sources /\ call[c].status = "active"
      BY <2>3 DEF Edit, Base, TypeOK, NoCopy
    <3>2. source'.status = "active"
      BY <2>3, <3>1 DEF Edit, CallerSaves, Sources
    <3> QED BY <3>2, <1>b
  <2>4. ASSUME NEW c \in Callers, NEW kind \in {"sync", "delete"}, Submit(c, kind) PROVE Goal
    <3>1. call[c] \in Sources /\ call[c].status = "active"
      BY <2>4 DEF Submit, Base, TypeOK, NoCopy
    <3>2. source'.status \in {"active", "deleting"}
      BY <2>4, <3>1 DEF Submit, CallerSaves, Sources
    <3> QED BY <3>2, <1>b
  <2>5. ASSUME NEW r \in Runners, BeforePoll(r) PROVE Goal
    BY <2>5, <1>a
    DEF BeforePoll
  <2>6. ASSUME NEW r \in Runners, Claim(r) PROVE Goal
    BY <2>6, <1>a
    DEF Claim
  <2>7. ASSUME NEW r \in Runners, Recover(r) PROVE Goal
    BY <2>7, <1>a
    DEF Recover
  <2>8. ASSUME NEW r \in Runners, Load(r) PROVE Goal
    BY <2>8, <1>a
    DEF Load
  <2>9. ASSUME NEW r \in Runners, Begin(r) PROVE Goal
    BY <2>9, <1>a
    DEF Begin, Advance
  <2>10. ASSUME NEW r \in Runners, SaveSyncing(r) PROVE Goal
    <3>1. copy[r] \in Sources
      BY <2>10, Held DEF SaveSyncing, Holding
    <3>2. source' = source \/ source' = [copy[r] EXCEPT !.sync = "syncing"]
      BY <2>10 DEF SaveSyncing, Base, TypeOK
    <3>3. source' = source \/ source'.status # "deleted"
      BY <1>0, <3>1, <3>2 DEF Sources
    <3> QED BY <3>3, <1>a, <1>b
  <2>11. ASSUME NEW r \in Runners, Fetch(r) PROVE Goal
    BY <2>11, <1>a
    DEF Fetch, Advance
  <2>12. ASSUME NEW r \in Runners, NEW op \in {"delete", "create", "update"},
             NEW k \in Skills, ApplySkill(r, op, k)
        PROVE  Goal
    BY <2>12, <1>a
    DEF ApplySkill
  <2>13. ASSUME NEW r \in Runners, Finish(r) PROVE Goal
    BY <2>13, <1>a
    DEF Finish, Finalize
  <2>14. ASSUME NEW r \in Runners, Reject(r) PROVE Goal
    BY <2>14, <1>a
    DEF Reject, Finalize
  <2>15. ASSUME NEW r \in Runners, Orphan(r) PROVE Goal
    BY <2>15, <1>a
    DEF Orphan, Finalize
  <2>16. ASSUME NEW r \in Runners, Sweep(r) PROVE Goal
    BY <2>16, <1>a
    DEF Sweep
  <2>17. ASSUME NEW r \in Runners, NEW k \in Skills, ClearSkill(r, k) PROVE Goal
    BY <2>17, <1>a
    DEF ClearSkill
  <2>18. ASSUME NEW r \in Runners, FinishDelete(r) PROVE Goal
    BY <2>18, <1>a
    DEF FinishDelete, Finalize
  <2>19. ASSUME NEW r \in Runners, GiveUp(r) PROVE Goal
    BY <2>19, <1>a
    DEF GiveUp
  <2>20. ASSUME NEW r \in Runners, Undo(r) PROVE Goal
    BY <2>20, <1>a
    DEF Undo, Finalize
  <2>21. ASSUME NEW r \in Runners, Record(r) PROVE Goal
    <3>1. copy[r] \in Sources
      BY <2>21, Held DEF Record, Holding
    <3>2. source' = source \/ source'.status # "deleted"
      BY <2>21, <1>0, <3>1 DEF Record, EndWith, Recorded, Sources
    <3> QED BY <3>2, <1>a, <1>b
  <2>22. ASSUME NEW r \in Runners, Bury(r) PROVE Goal
    <3>1. copy[r] \in Sources /\ pc[r] = "bury" /\ skills' = skills
      BY <2>22, Held DEF Bury, EndWith, Holding
    <3>2. \/ source' = source \/ source'.status # "deleted"
          \/ source'.sync = "success"
      BY <2>22, <3>1 DEF Bury, EndWith, Buried, Restored, Sources
    <3>3. CASE source'.sync = "success"
      BY <3>1, <3>3 DEF Running
    <3> QED BY <3>2, <3>3, <1>a, <1>b
  <2>23. ASSUME NEW r \in Runners, MarkFailed(r) PROVE Goal
    <3>1. copy[r] \in Sources
      BY <2>23, Held DEF MarkFailed, Holding
    <3>2. source' = source \/ source'.status # "deleted"
      BY <2>23, <1>0, <3>1 DEF MarkFailed, EndWith, Failed, Sources
    <3> QED BY <3>2, <1>a, <1>b
  <2>24. ASSUME NEW r \in Runners, Restore(r) PROVE Goal
    <3>1. copy[r] \in Sources
      BY <2>24, Held DEF Restore, Holding
    <3>2. source' = source \/ source'.status # "deleted"
      BY <2>24, <1>0, <3>1 DEF Restore, EndWith, Restored, Sources
    <3> QED BY <3>2, <1>a, <1>b
  <2>25. ASSUME NEW r \in Runners, Crash(r) PROVE Goal
    BY <2>25, <1>a
    DEF Crash
  <2>26. ASSUME NEW r \in Runners, LeaseLost(r) PROVE Goal
    BY <2>26, <1>a
    DEF LeaseLost
  <2>27. ASSUME NEW r \in Runners, Stall(r) PROVE Goal
    BY <2>27, <1>a
    DEF Stall
  <2>28. CASE UNCHANGED vars
    BY <2>28, <1>a DEF vars
  <2> QED BY <2>1, <2>2, <2>3, <2>4, <2>5, <2>6, <2>7, <2>8, <2>9, <2>10, <2>11, <2>12,
      <2>13, <2>14, <2>15, <2>16, <2>17, <2>18, <2>19, <2>20, <2>21, <2>22, <2>23,
      <2>24, <2>25, <2>26, <2>27, <2>28
    DEF Next, Call, Work, Fault
<1>d. ASSUME NEW r \in Runners PROVE copy'[r].status # "deleted"
  BY <1>0, TrailStep DEF Trail
<1> QED BY <1>c, <1>d DEF DeletedRests

LEMMA AgreementStep ==
  ASSUME Base, Agreement, [Next]_vars
  PROVE  Agreement'
<1>1. Course \/ ~Sound'
  BY CourseStep
<1>2. Sound' => Sound
  BY CausesStep DEF Sound
<1>3. ASSUME NEW r \in Runners, pc[r] \notin Idle, Owns(r), Sound
      PROVE  source.sync \in Running
  BY <1>3, OwnsActive DEF Agreement, BusyIsMarked, Busy
<1>4. BusyIsMarked'
  <2> SUFFICES ASSUME Sound', Busy' PROVE source'.sync \in Running
    BY DEF BusyIsMarked
  <2>1. CASE Keeps
    BY <1>2, <2>1 DEF Keeps, Same, SameAfter, Busy, Agreement, BusyIsMarked
  <2>2. CASE \E j \in Jobs, r \in Runners : Closes(j, r)
    BY <1>2, <2>2 DEF Closes, Busy, Agreement, BusyIsMarked
  <2>3. CASE \E j \in Jobs : Opens(j)
    BY <2>3 DEF Opens
  <2>4. ASSUME NEW r \in Runners, Settles(r) PROVE FALSE
    BY <1>2, <2>4 DEF Settles, Same, SameAfter, Busy, Agreement, OneAfter, NoActiveJob
  <2> QED BY <1>1, <2>1, <2>2, <2>3, <2>4 DEF Course
<1>5. MarkedIsBusy'
  <2> SUFFICES ASSUME causes' = {}, source'.sync \in Running PROVE Busy'
    BY DEF MarkedIsBusy
  <2>0. causes = {} /\ Sound'
    BY CausesStep DEF Sound
  <2>1. CASE Keeps
    BY <2>0, <2>1 DEF Keeps, Same, SameAfter, Busy, Agreement, MarkedIsBusy
  <2>2. CASE \E j \in Jobs, r \in Runners : Closes(j, r)
    BY <2>2 DEF Closes, Busy
  <2>3. CASE \E j \in Jobs : Opens(j)
    BY <2>3 DEF Opens, Busy
  <2>4. ~\E r \in Runners : Settles(r)
    BY DEF Settles
  <2> QED BY <1>1, <2>0, <2>1, <2>2, <2>3, <2>4 DEF Course
<1>6. OneAfter'
  <2> SUFFICES ASSUME Sound', NEW r \in Runners, After(r)'
               PROVE  NoActiveJob' /\ \A v \in Runners : After(v)' => v = r
    BY DEF OneAfter
  <2>1. CASE Keeps
    BY <1>2, <2>1 DEF Keeps, Same, SameAfter, Agreement, OneAfter, NoActiveJob
  <2>2. ASSUME NEW j \in Jobs, NEW v \in Runners, Closes(j, v)
        PROVE  NoActiveJob' /\ \A u \in Runners : After(u)' => u = r
    <3>1. \A u \in Runners : ~After(u)
      BY <1>2, <2>2 DEF Closes, Agreement, OneAfter, NoActiveJob
    <3>2. \A u \in Runners : After(u)' => u = v
      BY <2>2, <3>1 DEF Closes, SameAfter
    <3>3. NoActiveJob'
      BY <2>2 DEF Closes, Same, NoActiveJob, Agreement, OneActiveJob
    <3> QED BY <3>2, <3>3
  <2>3. ASSUME NEW j \in Jobs, Opens(j) PROVE FALSE
    BY <1>2, <2>3 DEF Opens, SameAfter, Busy, Agreement, BusyIsMarked
  <2>4. ASSUME NEW v \in Runners, Settles(v) PROVE FALSE
    BY <1>2, <2>4 DEF Settles, SameAfter, Agreement, OneAfter
  <2> QED BY <1>1, <2>1, <2>2, <2>3, <2>4 DEF Course
<1>7. CarriesRunning'
  <2> SUFFICES ASSUME Sound', NEW r \in Runners, pc'[r] \in Carrying, Owns(r)'
               PROVE  copy'[r].sync \in Running
    BY DEF CarriesRunning
  <2>1. pc[r] \in Executing /\ Owns(r)
    BY OwnsStep DEF Carrying, Holding
  <2>2. pc[r] \notin Idle
    BY <2>1 DEF Executing, Idle
  <2>3. CASE pc[r] \in Carrying /\ copy'[r] = copy[r]
    BY <1>2, <2>1, <2>3 DEF Agreement, CarriesRunning
  <2>4. CASE copy'[r].sync = "syncing"
    BY <2>4 DEF Running
  <2>5. CASE copy'[r] = source
    BY <1>2, <1>3, <2>1, <2>2, <2>5
  <2> QED BY <2>3, <2>4, <2>5, TrailStep DEF Trail
<1>8. FailsRunning'
  <2> SUFFICES ASSUME Sound', NEW r \in Runners, pc'[r] \in {"failing", "failingLate"}
               PROVE  copy'[r].sync \in Running
    BY DEF FailsRunning
  <2>1. CASE copy'[r] = copy[r] /\ pc[r] \in {"failing", "failingLate"}
    BY <1>2, <2>1 DEF Agreement, FailsRunning
  <2>2. CASE copy'[r] = copy[r] /\ pc[r] = "reject" /\ Owns(r)
    BY <1>2, <2>2 DEF Agreement, CarriesRunning, Carrying, Holding, Executing
  <2>3. CASE copy'[r] = source /\ pc[r] = "recover"
    BY <1>2, <2>3 DEF Agreement, BusyIsMarked, Busy, After, Recovering
  <2> QED BY <2>1, <2>2, <2>3, TrailStep DEF Trail
<1>9. OrphanIsLost'
  <2> SUFFICES ASSUME Sound', NEW r \in Runners, pc'[r] = "orphan", Owns(r)'
               PROVE  FALSE
    BY DEF OrphanIsLost
  <2>1. pc[r] \in Executing /\ Owns(r)
    BY OwnsStep DEF Executing
  <2>2. source.sync \in Running
    BY <1>2, <1>3, <2>1 DEF Executing, Idle
  <2>3. pc[r] # "orphan" /\ source.status # "deleted"
    BY <1>2, <2>1, <2>2 DEF Agreement, OrphanIsLost, DeletedRests
  <2> QED BY <2>3, TrailStep DEF Trail
<1>10. OneActiveJob'
  BY ActiveJobStep DEF Agreement
<1> QED BY <1>4, <1>5, <1>6, <1>7, <1>8, <1>9, <1>10, DeletedRestsStep DEF Agreement

LEMMA AgreementInvariant == Spec => []Agreement
<1>1. Init => Agreement
  BY DEF Init, Agreement, OneActiveJob, BusyIsMarked, MarkedIsBusy, OneAfter, CarriesRunning,
     FailsRunning, OrphanIsLost, DeletedRests, Sound, Busy, After, Active, UnbornJob, Running,
     Ending, Recovering, Carrying, Holding, Executing, NoCopy
<1> QED BY <1>1, AgreementStep, BaseInvariant, PTL DEF Spec

(* The status a user sees is that of the work: while no API call saves a   *)
(* stale source, no execution outlives its lease and no outcome is lost,   *)
(* the source reads pending or syncing exactly as long as a job is active  *)
(* or its outcome is on the way.                                           *)
THEOREM SourceAgrees == Spec => []SourceFollowsJob
<1>1. Agreement => SourceFollowsJob
  BY DEF Agreement, BusyIsMarked, MarkedIsBusy, SourceFollowsJob, Sound, Busy, After
<1> QED BY <1>1, AgreementInvariant, PTL

-----------------------------------------------------------------------------
(* Skills: who writes them, and according to which plan *)

Ops == {"delete", "create", "update"}
Applies(r) == \E op \in Ops, k \in Skills : ApplySkill(r, op, k)
Clears(r) == \E k \in Skills : ClearSkill(r, k)

(* As long as no execution outlives its lease, the owner of a job writes.  *)
LEMMA SkillsStep ==
  ASSUME [Next]_vars, "overrun" \notin causes'
  PROVE  skills' = skills \/ \E r \in Runners : Owns(r) /\ (Applies(r) \/ Clears(r))
<1> DEFINE Goal == skills' = skills \/ \E r \in Runners : Owns(r) /\ (Applies(r) \/ Clears(r))
<1>0. skills' = skills => Goal
  OBVIOUS
<1> HIDE DEF Goal
<1>1. ASSUME NEW c \in Callers, Read(c) PROVE Goal
  BY <1>1, <1>0
  DEF Read
<1>2. ASSUME NEW c \in Callers, Refuse(c) PROVE Goal
  BY <1>2, <1>0
  DEF Refuse
<1>3. ASSUME NEW c \in Callers, NEW rev \in 1..MaxRev, NEW sync \in BOOLEAN, Edit(c, rev, sync)
      PROVE  Goal
  BY <1>3, <1>0
  DEF Edit, CallerSaves
<1>4. ASSUME NEW c \in Callers, NEW kind \in {"sync", "delete"}, Submit(c, kind) PROVE Goal
  BY <1>4, <1>0
  DEF Submit, CallerSaves
<1>5. ASSUME NEW r \in Runners, BeforePoll(r) PROVE Goal
  BY <1>5, <1>0
  DEF BeforePoll
<1>6. ASSUME NEW r \in Runners, Claim(r) PROVE Goal
  BY <1>6, <1>0
  DEF Claim
<1>7. ASSUME NEW r \in Runners, Recover(r) PROVE Goal
  BY <1>7, <1>0
  DEF Recover
<1>8. ASSUME NEW r \in Runners, Load(r) PROVE Goal
  BY <1>8, <1>0
  DEF Load
<1>9. ASSUME NEW r \in Runners, Begin(r) PROVE Goal
  BY <1>9, <1>0
  DEF Begin, Advance
<1>10. ASSUME NEW r \in Runners, SaveSyncing(r) PROVE Goal
  BY <1>10, <1>0
  DEF SaveSyncing
<1>11. ASSUME NEW r \in Runners, Fetch(r) PROVE Goal
  BY <1>11, <1>0
  DEF Fetch, Advance
<1>12. ASSUME NEW r \in Runners, NEW op \in {"delete", "create", "update"},
             NEW k \in Skills, ApplySkill(r, op, k)
      PROVE  Goal
  <2>1. Applies(r)
    BY <1>12 DEF Applies, Ops
  <2>2. skills' = skills \/ Owns(r)
    BY <1>12 DEF ApplySkill, Overrun
  <2> QED BY <2>1, <2>2 DEF Goal
<1>13. ASSUME NEW r \in Runners, Finish(r) PROVE Goal
  BY <1>13, <1>0
  DEF Finish, Finalize
<1>14. ASSUME NEW r \in Runners, Reject(r) PROVE Goal
  BY <1>14, <1>0
  DEF Reject, Finalize
<1>15. ASSUME NEW r \in Runners, Orphan(r) PROVE Goal
  BY <1>15, <1>0
  DEF Orphan, Finalize
<1>16. ASSUME NEW r \in Runners, Sweep(r) PROVE Goal
  BY <1>16, <1>0
  DEF Sweep
<1>17. ASSUME NEW r \in Runners, NEW k \in Skills, ClearSkill(r, k) PROVE Goal
  <2>1. Clears(r)
    BY <1>17 DEF Clears
  <2>2. skills' = skills \/ Owns(r)
    BY <1>17 DEF ClearSkill, Overrun
  <2> QED BY <2>1, <2>2 DEF Goal
<1>18. ASSUME NEW r \in Runners, FinishDelete(r) PROVE Goal
  BY <1>18, <1>0
  DEF FinishDelete, Finalize
<1>19. ASSUME NEW r \in Runners, GiveUp(r) PROVE Goal
  BY <1>19, <1>0
  DEF GiveUp
<1>20. ASSUME NEW r \in Runners, Undo(r) PROVE Goal
  BY <1>20, <1>0
  DEF Undo, Finalize
<1>21. ASSUME NEW r \in Runners, Record(r) PROVE Goal
  BY <1>21, <1>0
  DEF Record, EndWith
<1>22. ASSUME NEW r \in Runners, Bury(r) PROVE Goal
  BY <1>22, <1>0
  DEF Bury, EndWith
<1>23. ASSUME NEW r \in Runners, MarkFailed(r) PROVE Goal
  BY <1>23, <1>0
  DEF MarkFailed, EndWith
<1>24. ASSUME NEW r \in Runners, Restore(r) PROVE Goal
  BY <1>24, <1>0
  DEF Restore, EndWith
<1>25. ASSUME NEW r \in Runners, Crash(r) PROVE Goal
  BY <1>25, <1>0
  DEF Crash
<1>26. ASSUME NEW r \in Runners, LeaseLost(r) PROVE Goal
  BY <1>26, <1>0
  DEF LeaseLost
<1>27. ASSUME NEW r \in Runners, Stall(r) PROVE Goal
  BY <1>27, <1>0
  DEF Stall
<1>28. CASE UNCHANGED vars
  BY <1>28, <1>0
  DEF vars
<1> QED BY <1>1, <1>2, <1>3, <1>4, <1>5, <1>6, <1>7, <1>8, <1>9, <1>10, <1>11, <1>12,
    <1>13, <1>14, <1>15, <1>16, <1>17, <1>18, <1>19, <1>20, <1>21, <1>22, <1>23, <1>24,
    <1>25, <1>26, <1>27, <1>28
  DEF Next, Call, Work, Fault, Goal

(* How a runner comes to a plan that it carries out. *)
PlanTrail(v) ==
  /\ pc'[v] = "clear" => \/ pc[v] = "clear" /\ (plan'[v] = plan[v] \/ Clears(v))
                         \/ skills' = skills /\ plan'[v]["delete"] = Live
  /\ pc'[v] = "bury" => \/ pc[v] = "bury"
                        \/ /\ pc[v] = "clear" /\ plan[v]["delete"] = {} /\ Owns(v)
                           /\ skills' = skills
  /\ pc'[v] = "apply" => \/ pc[v] = "apply" /\ (plan'[v] = plan[v] \/ Applies(v))
                         \/ /\ skills' = skills
                            /\ \E found, unparsed \in SUBSET Skills :
                                 plan'[v] = Planned(found, unparsed, Live)

LEMMA PlanTrailSame ==
  ASSUME NEW v \in Runners, pc'[v] = pc[v], plan'[v] = plan[v]
  PROVE  PlanTrail(v)
BY DEF PlanTrail

LEMMA PlanTrailElsewhere ==
  ASSUME NEW v \in Runners, pc'[v] \notin {"clear", "bury", "apply"}
  PROVE  PlanTrail(v)
BY DEF PlanTrail

LEMMA PlanTrailStep ==
  ASSUME Base, [Next]_vars, NEW v \in Runners
  PROVE  PlanTrail(v)
<1>0. RunnerOK
  BY DEF Base, TypeOK, RunnerOK
<1>1. ASSUME NEW c \in Callers, Read(c) PROVE PlanTrail(v)
  BY <1>1, PlanTrailSame DEF Read, runner
<1>2. ASSUME NEW c \in Callers, Refuse(c) PROVE PlanTrail(v)
  BY <1>2, PlanTrailSame DEF Refuse, runner
<1>3. ASSUME NEW c \in Callers, NEW rev \in 1..MaxRev, NEW sync \in BOOLEAN, Edit(c, rev, sync)
      PROVE  PlanTrail(v)
  BY <1>3, PlanTrailSame DEF Edit, runner
<1>4. ASSUME NEW c \in Callers, NEW kind \in {"sync", "delete"}, Submit(c, kind)
      PROVE  PlanTrail(v)
  BY <1>4, PlanTrailSame DEF Submit, runner
<1>5. ASSUME NEW r \in Runners, BeforePoll(r) PROVE PlanTrail(v)
  <2>1. CASE v # r
    BY <1>5, <2>1, <1>0, PlanTrailSame
    DEF BeforePoll, Goto, RunnerOK
  <2>2. CASE v = r
    BY <1>5, <2>2, <1>0, PlanTrailElsewhere
    DEF BeforePoll, Goto, RunnerOK
  <2> QED BY <2>1, <2>2
<1>6. ASSUME NEW r \in Runners, Claim(r) PROVE PlanTrail(v)
  <2>1. CASE v # r
    BY <1>6, <2>1, <1>0, PlanTrailSame
    DEF Claim, Stop, RunnerOK
  <2>2. CASE v = r
    BY <1>6, <2>2, <1>0, PlanTrailElsewhere
    DEF Claim, Stop, RunnerOK
  <2> QED BY <2>1, <2>2
<1>7. ASSUME NEW r \in Runners, Recover(r) PROVE PlanTrail(v)
  <2>1. CASE v # r
    BY <1>7, <2>1, <1>0, PlanTrailSame
    DEF Recover, Leave, Stop, RunnerOK
  <2>2. CASE v = r
    BY <1>7, <2>2, <1>0, PlanTrailElsewhere
    DEF Recover, Leave, Stop, RunnerOK
  <2> QED BY <2>1, <2>2
<1>8. ASSUME NEW r \in Runners, Load(r) PROVE PlanTrail(v)
  <2>1. CASE v # r
    BY <1>8, <2>1, <1>0, PlanTrailSame
    DEF Load, RunnerOK
  <2>2. CASE v = r
    BY <1>8, <2>2, <1>0, PlanTrailElsewhere
    DEF Load, RunnerOK
  <2> QED BY <2>1, <2>2
<1>9. ASSUME NEW r \in Runners, Begin(r) PROVE PlanTrail(v)
  <2>1. CASE v # r
    BY <1>9, <2>1, <1>0, PlanTrailSame
    DEF Begin, Advance, Goto, Stop, RunnerOK
  <2>2. CASE v = r
    BY <1>9, <2>2, <1>0, PlanTrailElsewhere
    DEF Begin, Advance, Goto, Stop, RunnerOK
  <2> QED BY <2>1, <2>2
<1>10. ASSUME NEW r \in Runners, SaveSyncing(r) PROVE PlanTrail(v)
  <2>1. CASE v # r
    BY <1>10, <2>1, <1>0, PlanTrailSame
    DEF SaveSyncing, RunnerOK
  <2>2. CASE v = r
    BY <1>10, <2>2, <1>0, PlanTrailElsewhere
    DEF SaveSyncing, RunnerOK
  <2> QED BY <2>1, <2>2
<1>11. ASSUME NEW r \in Runners, Fetch(r) PROVE PlanTrail(v)
  <2>1. CASE v # r
    BY <1>11, <2>1, <1>0, PlanTrailSame DEF Fetch, Advance, Goto, Stop, RunnerOK
  <2>2. CASE Advance(r, "reject") /\ v = r
    BY <2>2, <1>0, PlanTrailElsewhere DEF Advance, Goto, Stop, RunnerOK
  <2>3. CASE ~Advance(r, "reject") /\ v = r
    <3>1. PICK found, unparsed \in SUBSET Skills :
            plan' = [plan EXCEPT ![r] = Planned(found, unparsed, Live)]
      BY <1>11, <2>3 DEF Fetch
    <3>2. pc'[v] = "apply" /\ skills' = skills
      BY <1>11, <2>3, <1>0 DEF Fetch, RunnerOK
    <3>3. plan'[v] = Planned(found, unparsed, Live)
      BY <2>3, <3>1, <1>0 DEF RunnerOK
    <3> QED BY <3>2, <3>3 DEF PlanTrail
  <2> QED BY <2>1, <2>2, <2>3
<1>12. ASSUME NEW r \in Runners, NEW op \in {"delete", "create", "update"},
             NEW k \in Skills, ApplySkill(r, op, k)
      PROVE  PlanTrail(v)
  <2>1. CASE v # r
    BY <1>12, <2>1, <1>0, PlanTrailSame DEF ApplySkill, RunnerOK
  <2>2. CASE v = r
    <3>1. pc[v] = "apply" /\ pc'[v] = "apply" /\ Applies(v)
      BY <1>12, <2>2 DEF ApplySkill, Applies, Ops
    <3> QED BY <3>1 DEF PlanTrail
  <2> QED BY <2>1, <2>2
<1>13. ASSUME NEW r \in Runners, Finish(r) PROVE PlanTrail(v)
  <2>1. CASE v # r
    BY <1>13, <2>1, <1>0, PlanTrailSame
    DEF Finish, Finalize, Goto, Stop, RunnerOK
  <2>2. CASE v = r
    BY <1>13, <2>2, <1>0, PlanTrailElsewhere
    DEF Finish, Finalize, Goto, Stop, RunnerOK
  <2> QED BY <2>1, <2>2
<1>14. ASSUME NEW r \in Runners, Reject(r) PROVE PlanTrail(v)
  <2>1. CASE v # r
    BY <1>14, <2>1, <1>0, PlanTrailSame
    DEF Reject, Finalize, Goto, Stop, RunnerOK
  <2>2. CASE v = r
    BY <1>14, <2>2, <1>0, PlanTrailElsewhere
    DEF Reject, Finalize, Goto, Stop, RunnerOK
  <2> QED BY <2>1, <2>2
<1>15. ASSUME NEW r \in Runners, Orphan(r) PROVE PlanTrail(v)
  <2>1. CASE v # r
    BY <1>15, <2>1, <1>0, PlanTrailSame
    DEF Orphan, Finalize, Goto, Stop, RunnerOK
  <2>2. CASE v = r
    BY <1>15, <2>2, <1>0, PlanTrailElsewhere
    DEF Orphan, Finalize, Goto, Stop, RunnerOK
  <2> QED BY <2>1, <2>2
<1>16. ASSUME NEW r \in Runners, Sweep(r) PROVE PlanTrail(v)
  <2>1. CASE v # r
    BY <1>16, <2>1, <1>0, PlanTrailSame DEF Sweep, Stop, RunnerOK
  <2>2. CASE v = r /\ ~Owns(r)
    BY <1>16, <2>2, <1>0, PlanTrailElsewhere DEF Sweep, Stop, RunnerOK
  <2>3. CASE v = r /\ Owns(r)
    <3>1. pc'[v] = "clear" /\ plan' = [plan EXCEPT ![r].delete = Live] /\ skills' = skills
      BY <1>16, <2>3, <1>0 DEF Sweep, RunnerOK
    <3>2. plan'[v]["delete"] = Live
      BY <2>3, <3>1, <1>0 DEF RunnerOK
    <3> QED BY <3>1, <3>2 DEF PlanTrail
  <2> QED BY <2>1, <2>2, <2>3
<1>17. ASSUME NEW r \in Runners, NEW k \in Skills, ClearSkill(r, k) PROVE PlanTrail(v)
  <2>1. CASE v # r
    BY <1>17, <2>1, <1>0, PlanTrailSame DEF ClearSkill, RunnerOK
  <2>2. CASE v = r
    <3>1. pc'[v] \in {pc[v], "clearFailed"} /\ pc[v] \in {"clear", "clearFailed"} /\ Clears(v)
      BY <1>17, <2>2, <1>0 DEF ClearSkill, Clears, RunnerOK
    <3> QED BY <3>1 DEF PlanTrail
  <2> QED BY <2>1, <2>2
<1>18. ASSUME NEW r \in Runners, FinishDelete(r) PROVE PlanTrail(v)
  <2>1. CASE v # r
    BY <1>18, <2>1, <1>0, PlanTrailSame DEF FinishDelete, Finalize, Goto, Stop, RunnerOK
  <2>2. CASE v = r /\ ~Owns(r)
    BY <1>18, <2>2, <1>0, PlanTrailElsewhere DEF FinishDelete, Finalize, Stop, RunnerOK
  <2>3. CASE v = r /\ Owns(r)
    <3>1. /\ pc[v] = "clear" /\ plan[v]["delete"] = {} /\ skills' = skills
          /\ pc'[v] = "bury"
      BY <1>18, <2>3, <1>0 DEF FinishDelete, Cleared, Finalize, Goto, RunnerOK
    <3> QED BY <2>3, <3>1 DEF PlanTrail
  <2> QED BY <2>1, <2>2, <2>3
<1>19. ASSUME NEW r \in Runners, GiveUp(r) PROVE PlanTrail(v)
  <2>1. CASE v # r
    BY <1>19, <2>1, <1>0, PlanTrailSame
    DEF GiveUp, Goto, RunnerOK
  <2>2. CASE v = r
    BY <1>19, <2>2, <1>0, PlanTrailElsewhere
    DEF GiveUp, Goto, RunnerOK
  <2> QED BY <2>1, <2>2
<1>20. ASSUME NEW r \in Runners, Undo(r) PROVE PlanTrail(v)
  <2>1. CASE v # r
    BY <1>20, <2>1, <1>0, PlanTrailSame
    DEF Undo, Finalize, Goto, Stop, RunnerOK
  <2>2. CASE v = r
    BY <1>20, <2>2, <1>0, PlanTrailElsewhere
    DEF Undo, Finalize, Goto, Stop, RunnerOK
  <2> QED BY <2>1, <2>2
<1>21. ASSUME NEW r \in Runners, Record(r) PROVE PlanTrail(v)
  <2>1. CASE v # r
    BY <1>21, <2>1, <1>0, PlanTrailSame
    DEF Record, Stop, RunnerOK
  <2>2. CASE v = r
    BY <1>21, <2>2, <1>0, PlanTrailElsewhere
    DEF Record, Stop, RunnerOK
  <2> QED BY <2>1, <2>2
<1>22. ASSUME NEW r \in Runners, Bury(r) PROVE PlanTrail(v)
  <2>1. CASE v # r
    BY <1>22, <2>1, <1>0, PlanTrailSame
    DEF Bury, Stop, RunnerOK
  <2>2. CASE v = r
    BY <1>22, <2>2, <1>0, PlanTrailElsewhere
    DEF Bury, Stop, RunnerOK
  <2> QED BY <2>1, <2>2
<1>23. ASSUME NEW r \in Runners, MarkFailed(r) PROVE PlanTrail(v)
  <2>1. CASE v # r
    BY <1>23, <2>1, <1>0, PlanTrailSame
    DEF MarkFailed, Leave, Stop, RunnerOK
  <2>2. CASE v = r
    BY <1>23, <2>2, <1>0, PlanTrailElsewhere
    DEF MarkFailed, Leave, Stop, RunnerOK
  <2> QED BY <2>1, <2>2
<1>24. ASSUME NEW r \in Runners, Restore(r) PROVE PlanTrail(v)
  <2>1. CASE v # r
    BY <1>24, <2>1, <1>0, PlanTrailSame
    DEF Restore, Leave, Stop, RunnerOK
  <2>2. CASE v = r
    BY <1>24, <2>2, <1>0, PlanTrailElsewhere
    DEF Restore, Leave, Stop, RunnerOK
  <2> QED BY <2>1, <2>2
<1>25. ASSUME NEW r \in Runners, Crash(r) PROVE PlanTrail(v)
  <2>1. CASE v # r
    BY <1>25, <2>1, <1>0, PlanTrailSame
    DEF Crash, Stop, RunnerOK
  <2>2. CASE v = r
    BY <1>25, <2>2, <1>0, PlanTrailElsewhere
    DEF Crash, Stop, RunnerOK
  <2> QED BY <2>1, <2>2
<1>26. ASSUME NEW r \in Runners, LeaseLost(r) PROVE PlanTrail(v)
  <2>1. CASE v # r
    BY <1>26, <2>1, <1>0, PlanTrailSame
    DEF LeaseLost, Stop, RunnerOK
  <2>2. CASE v = r
    BY <1>26, <2>2, <1>0, PlanTrailElsewhere
    DEF LeaseLost, Stop, RunnerOK
  <2> QED BY <2>1, <2>2
<1>27. ASSUME NEW r \in Runners, Stall(r) PROVE PlanTrail(v)
  BY <1>27, PlanTrailSame DEF Stall, runner
<1>28. CASE UNCHANGED vars
  BY <1>28, PlanTrailSame DEF vars, runner
<1> QED BY <1>1, <1>2, <1>3, <1>4, <1>5, <1>6, <1>7, <1>8, <1>9, <1>10, <1>11, <1>12,
    <1>13, <1>14, <1>15, <1>16, <1>17, <1>18, <1>19, <1>20, <1>21, <1>22, <1>23, <1>24,
    <1>25, <1>26, <1>27, <1>28
  DEF Next, Call, Work, Fault

(* What carrying out one piece of a plan does. *)
LEMMA ApplyEffect ==
  ASSUME Base, NEW r \in Runners, NEW op \in Ops, NEW k \in Skills, ApplySkill(r, op, k)
  PROVE  /\ pc[r] = "apply" /\ k \in plan[r][op]
         /\ plan'[r][op] = plan[r][op] \ {k}
         /\ \A other \in Ops \ {op} : plan'[r][other] = plan[r][other]
         /\ \A i \in Skills \ {k} : skills'[i] = skills[i]
         /\ \/ skills'[k] = skills[k]
            \/ op = "create" /\ skills'[k] = skills[k] + 1
            \/ op = "update" /\ skills'[k] = 1
            \/ op = "delete" /\ skills[k] > 0 /\ skills'[k] = skills[k] - 1
<1>1. skills \in [Skills -> Nat] /\ plan[r] \in [Ops -> SUBSET Skills] /\ plan' = [plan EXCEPT ![r][op] = @ \ {k}]
  BY DEF Base, TypeOK, ApplySkill, Ops
<1>2. plan \in [Runners -> [Ops -> SUBSET Skills]]
  BY DEF Base, TypeOK, Ops
<1>3. plan'[r] = [plan[r] EXCEPT ![op] = @ \ {k}]
  BY <1>1, <1>2
<1>4. /\ plan'[r][op] = plan[r][op] \ {k}
      /\ \A other \in Ops \ {op} : plan'[r][other] = plan[r][other]
  BY <1>1, <1>3
<1>5. /\ \A i \in Skills \ {k} : skills'[i] = skills[i]
      /\ \/ skills'[k] = skills[k]
         \/ op = "create" /\ skills'[k] = skills[k] + 1
         \/ op = "update" /\ skills'[k] = 1
         \/ op = "delete" /\ skills[k] > 0 /\ skills'[k] = skills[k] - 1
  <2>1. CASE skills' = skills
    BY <2>1
  <2>2. CASE skills' # skills
    <3>1. CASE op = "create"
      BY <1>1, <2>2, <3>1 DEF ApplySkill
    <3>2. CASE op = "update"
      BY <1>1, <2>2, <3>2 DEF ApplySkill
    <3>3. CASE op = "delete"
      BY <1>1, <2>2, <3>3 DEF ApplySkill
    <3> QED BY <3>1, <3>2, <3>3 DEF Ops
  <2> QED BY <2>1, <2>2
<1> QED BY <1>4, <1>5 DEF ApplySkill

LEMMA ClearEffect ==
  ASSUME Base, NEW r \in Runners, NEW k \in Skills, ClearSkill(r, k)
  PROVE  /\ pc[r] \in {"clear", "clearFailed"}
         /\ plan'[r]["delete"] = plan[r]["delete"] \ {k}
         /\ \A i \in Skills \ {k} : skills'[i] = skills[i]
         /\ skills'[k] = 0 \/ (skills'[k] = skills[k] /\ pc'[r] = "clearFailed")
<1>1. /\ skills \in [Skills -> Nat] /\ pc \in [Runners -> States]
      /\ plan \in [Runners -> [{"delete", "create", "update"} -> SUBSET Skills]]
  BY DEF Base, TypeOK
<1>2. plan'[r]["delete"] = plan[r]["delete"] \ {k}
  BY <1>1 DEF ClearSkill
<1>3. /\ \A i \in Skills \ {k} : skills'[i] = skills[i]
      /\ skills'[k] = 0 \/ (skills'[k] = skills[k] /\ pc'[r] = "clearFailed")
  BY <1>1 DEF ClearSkill
<1> QED BY <1>2, <1>3 DEF ClearSkill

-----------------------------------------------------------------------------
(* A source that is deleted leaves no skill behind: the execution that     *)
(* deletes it has still to delete whatever is left, until nothing is.      *)

Gone(k) == skills[k] = 0
ListsTheRest ==
  Sound => \A r \in Runners : pc[r] = "clear" /\ Owns(r) =>
             \A k \in Skills : Gone(k) \/ k \in plan[r]["delete"]
BuriesEmpty == Sound => \A r \in Runners : pc[r] = "bury" => \A k \in Skills : Gone(k)
Cleaning == ListsTheRest /\ BuriesEmpty /\ DeletedSourceIsEmpty

LEMMA CleaningStep ==
  ASSUME Base, Agreement, Cleaning, [Next]_vars
  PROVE  Cleaning'
<1>1. Sound' => Sound /\ "overrun" \notin causes'
  BY CausesStep DEF Sound
<1>2. ASSUME Sound', NoActiveJob PROVE skills' = skills
  <2>1. ASSUME NEW r \in Runners, Owns(r), Applies(r) \/ Clears(r) PROVE FALSE
    <3>1. pc[r] \in {"apply", "clear", "clearFailed"}
      BY <2>1 DEF Applies, Clears, ApplySkill, ClearSkill
    <3> QED BY <1>2, <2>1, <3>1, OwnsActive DEF NoActiveJob, Idle
  <2> QED BY <1>1, <1>2, <2>1, SkillsStep
<1>3. ListsTheRest'
  <2> SUFFICES ASSUME Sound', NEW v \in Runners, pc'[v] = "clear", Owns(v)', NEW k \in Skills
               PROVE  skills'[k] = 0 \/ k \in plan'[v]["delete"]
    BY DEF ListsTheRest, Gone
  <2>1. pc[v] \in Executing /\ Owns(v)
    BY OwnsStep DEF Executing
  <2>2. CASE skills' = skills /\ plan'[v]["delete"] = Live
    BY <2>2 DEF Live, Base, TypeOK
  <2>3. CASE pc[v] = "clear"
    <3>1. skills[k] = 0 \/ k \in plan[v]["delete"]
      BY <1>1, <2>1, <2>3 DEF Cleaning, ListsTheRest, Gone
    <3>2. CASE Clears(v)
      <4>1. PICK i \in Skills : ClearSkill(v, i)
        BY <3>2 DEF Clears
      <4> QED BY <3>1, <4>1, ClearEffect
    <3>3. CASE ~Clears(v) /\ plan'[v] = plan[v]
      <4>1. ASSUME NEW r \in Runners, Owns(r), Applies(r) \/ Clears(r) PROVE FALSE
        <5>1. pc[r] \in {"apply", "clear", "clearFailed"}
          BY <4>1 DEF Applies, Clears, ApplySkill, ClearSkill
        <5>2. r = v
          BY <2>1, <2>3, <4>1, <5>1, OneOwner DEF Agreement, Idle
        <5> QED BY <2>3, <3>3, <4>1, <5>2 DEF Applies, ApplySkill
      <4>2. skills' = skills
        BY <1>1, <4>1, SkillsStep
      <4> QED BY <3>1, <3>3, <4>2
    <3>4. CASE ~(pc[v] = "clear" /\ (plan'[v] = plan[v] \/ Clears(v)))
      BY <2>2, <3>4, PlanTrailStep DEF PlanTrail
    <3> QED BY <2>3, <3>2, <3>3, <3>4
  <2> QED BY <2>2, <2>3, PlanTrailStep DEF PlanTrail
<1>4. BuriesEmpty'
  <2> SUFFICES ASSUME Sound', NEW v \in Runners, pc'[v] = "bury"
               PROVE  \A k \in Skills : skills'[k] = 0
    BY DEF BuriesEmpty, Gone
  <2>1. CASE pc[v] = "bury"
    <3>1. NoActiveJob
      BY <1>1, <2>1 DEF Agreement, OneAfter, After, Ending
    <3> QED BY <1>1, <1>2, <2>1, <3>1 DEF Cleaning, BuriesEmpty, Gone
  <2>2. CASE pc[v] = "clear" /\ plan[v]["delete"] = {} /\ Owns(v) /\ skills' = skills
    BY <1>1, <2>2 DEF Cleaning, ListsTheRest, Gone
  <2> QED BY <2>1, <2>2, PlanTrailStep DEF PlanTrail
<1>5. DeletedSourceIsEmpty'
  <2> SUFFICES ASSUME source'.status = "deleted", Sound'
               PROVE  \A k \in Skills : skills'[k] = 0
    BY DEF DeletedSourceIsEmpty, Sound
  <2>1. CASE source' = source
    <3>1. source.sync \notin Running
      BY <2>1 DEF Agreement, DeletedRests
    <3>2. NoActiveJob
      BY <1>1, <3>1 DEF Agreement, BusyIsMarked, Busy, NoActiveJob
    <3> QED BY <1>1, <1>2, <2>1, <3>2 DEF Cleaning, DeletedSourceIsEmpty, Sound
  <2>2. CASE \E r \in Runners : pc[r] = "bury" /\ skills' = skills
    BY <1>1, <2>2 DEF Cleaning, BuriesEmpty, Gone
  <2> QED BY <2>1, <2>2, DeletedRestsStep DEF Agreement
<1> QED BY <1>3, <1>4, <1>5 DEF Cleaning

(* A source that reads deleted has no skill left: neither one that could   *)
(* not be deleted, nor one that a second execution created meanwhile. Only *)
(* a call that saves a stale source, or an execution that outlives its     *)
(* lease, can break this.                                                  *)
THEOREM DeletedLeavesNothing == Spec => []DeletedSourceIsEmpty
<1>1. Init => Cleaning
  BY DEF Init, Cleaning, ListsTheRest, BuriesEmpty, DeletedSourceIsEmpty
<1>2. Cleaning => DeletedSourceIsEmpty
  BY DEF Cleaning
<1> QED BY <1>1, <1>2, CleaningStep, AgreementInvariant, BaseInvariant, PTL DEF Spec

-----------------------------------------------------------------------------
(* No skill is created twice: what an execution is going to create is not  *)
(* there, as long as only one execution at a time writes.                  *)

CreatesAnew ==
  "overrun" \notin causes =>
    \A r \in Runners : pc[r] = "apply" /\ Owns(r) =>
      /\ \A k \in plan[r]["create"] : skills[k] = 0
      /\ plan[r]["create"] \cap plan[r]["update"] = {}
Creating == CreatesAnew /\ NoDuplicateSkill

LEMMA CreatingStep ==
  ASSUME Base, OneActiveJob, Creating, [Next]_vars
  PROVE  Creating'
<1>1. "overrun" \notin causes' => "overrun" \notin causes
  BY CausesStep
<1>2. skills \in [Skills -> Nat] /\ plan \in [Runners -> [Ops -> SUBSET Skills]]
  BY DEF Base, TypeOK, Ops
<1>3. CreatesAnew'
  <2> SUFFICES ASSUME "overrun" \notin causes', NEW v \in Runners, pc'[v] = "apply", Owns(v)'
               PROVE  /\ \A k \in plan'[v]["create"] : skills'[k] = 0
                      /\ plan'[v]["create"] \cap plan'[v]["update"] = {}
    BY DEF CreatesAnew
  <2>1. pc[v] \in Executing /\ Owns(v)
    BY OwnsStep DEF Executing
  <2>2. ASSUME NEW found \in SUBSET Skills, NEW unparsed \in SUBSET Skills, skills' = skills,
               plan'[v] = Planned(found, unparsed, Live)
        PROVE  /\ \A k \in plan'[v]["create"] : skills'[k] = 0
               /\ plan'[v]["create"] \cap plan'[v]["update"] = {}
    <3>1. plan'[v]["create"] = found \ Live /\ plan'[v]["update"] = found \cap Live
      BY <2>2 DEF Planned
    <3>2. \A k \in found \ Live : skills[k] = 0
      BY <1>2 DEF Live
    <3> QED BY <2>2, <3>1, <3>2
  <2>3. CASE pc[v] = "apply"
    <3>1. /\ \A k \in plan[v]["create"] : skills[k] = 0
          /\ plan[v]["create"] \cap plan[v]["update"] = {}
      BY <1>1, <2>1, <2>3 DEF Creating, CreatesAnew
    <3>2. CASE Applies(v)
      <4>1. PICK op \in Ops, k \in Skills : ApplySkill(v, op, k)
        BY <3>2 DEF Applies
      <4>2. /\ k \in plan[v][op]
            /\ plan'[v][op] = plan[v][op] \ {k}
            /\ \A other \in Ops \ {op} : plan'[v][other] = plan[v][other]
            /\ \A i \in Skills \ {k} : skills'[i] = skills[i]
            /\ \/ skills'[k] = skills[k]
               \/ op = "create" /\ skills'[k] = skills[k] + 1
               \/ op = "update" /\ skills'[k] = 1
               \/ op = "delete" /\ skills[k] > 0 /\ skills'[k] = skills[k] - 1
        BY <4>1, ApplyEffect
      <4>3. plan[v]["create"] \subseteq Skills
        BY <1>2 DEF Ops
      <4>4. CASE op = "create"
        <5>1. plan'[v]["create"] = plan[v]["create"] \ {k} /\ plan'[v]["update"] = plan[v]["update"]
          BY <4>2, <4>4 DEF Ops
        <5> QED BY <3>1, <4>2, <4>3, <5>1
      <4>5. CASE op = "update"
        <5>1. plan'[v]["create"] = plan[v]["create"] /\ plan'[v]["update"] = plan[v]["update"] \ {k}
          BY <4>2, <4>5 DEF Ops
        <5>2. k \in plan[v]["update"]
          BY <4>2, <4>5
        <5> QED BY <3>1, <4>2, <4>3, <5>1, <5>2
      <4>6. CASE op = "delete"
        <5>1. plan'[v]["create"] = plan[v]["create"] /\ plan'[v]["update"] = plan[v]["update"]
          BY <4>2, <4>6 DEF Ops
        <5>2. \A i \in plan[v]["create"] : skills'[i] = skills[i]
          BY <1>2, <3>1, <4>2, <4>3, <4>6
        <5> QED BY <3>1, <5>1, <5>2
      <4> QED BY <4>4, <4>5, <4>6 DEF Ops
    <3>3. CASE ~Applies(v) /\ plan'[v] = plan[v]
      <4>1. ASSUME NEW r \in Runners, Owns(r), Applies(r) \/ Clears(r) PROVE FALSE
        <5>1. pc[r] \in {"apply", "clear", "clearFailed"}
          BY <4>1 DEF Applies, Clears, ApplySkill, ClearSkill
        <5>2. r = v
          BY <2>1, <2>3, <4>1, <5>1, OneOwner DEF Idle
        <5> QED BY <2>3, <3>3, <4>1, <5>2 DEF Clears, ClearSkill
      <4>2. skills' = skills
        BY <4>1, SkillsStep
      <4> QED BY <3>1, <3>3, <4>2
    <3> QED BY <2>2, <2>3, <3>2, <3>3, PlanTrailStep DEF PlanTrail
  <2> QED BY <2>2, <2>3, PlanTrailStep DEF PlanTrail
<1>4. NoDuplicateSkill'
  <2> SUFFICES ASSUME "overrun" \notin causes', NEW i \in Skills
               PROVE  skills'[i] <= 1
    BY DEF NoDuplicateSkill
  <2>1. skills[i] \in Nat /\ skills[i] <= 1
    BY <1>1, <1>2 DEF Creating, NoDuplicateSkill
  <2>2. CASE skills' = skills
    BY <2>1, <2>2
  <2>3. ASSUME NEW r \in Runners, Owns(r), NEW op \in Ops, NEW k \in Skills, ApplySkill(r, op, k)
        PROVE  skills'[i] <= 1
    <3>1. pc[r] = "apply" /\ k \in plan[r][op]
      BY <2>3, ApplyEffect
    <3>2. op = "create" => skills[k] = 0
      BY <1>1, <2>3, <3>1 DEF Creating, CreatesAnew
    <3> QED BY <2>1, <2>3, <3>2, ApplyEffect
  <2>4. ASSUME NEW r \in Runners, NEW k \in Skills, ClearSkill(r, k)
        PROVE  skills'[i] <= 1
    BY <2>1, <2>4, ClearEffect
  <2> QED BY <2>2, <2>3, <2>4, SkillsStep DEF Applies, Clears
<1> QED BY <1>3, <1>4 DEF Creating

(* There is one skill at most for what the repository calls one skill,     *)
(* although no index makes it so: a crash, a retry or a second runner      *)
(* compares with what is there and creates none again, unless an execution *)
(* outlives its lease.                                                     *)
THEOREM NeverTwice == Spec => []NoDuplicateSkill
<1>1. Init => Creating
  BY DEF Init, Creating, CreatesAnew, NoDuplicateSkill
<1>2. Creating => NoDuplicateSkill
  BY DEF Creating
<1> QED BY <1>1, <1>2, CreatingStep, SingleActiveJob, BaseInvariant, PTL DEF Spec
==============================================================================
