SPECIFICATION FairSpec
CONSTANTS
 r1 = r1
 r2 = r2
 c1 = c1
 Runners <- RunnerNames
 Callers = {c1}
 Skills = {"s1"}
 MaxAttempts = 2
 Faults = {"stall","crash","error"}
 MaxJobs = 2
 MaxRev = 1
INVARIANT SourceFollowsJob
INVARIANT NoDuplicateSkill
INVARIANT DeletedSourceIsEmpty
INVARIANT OneActiveJob
PROPERTY KeptSkillStays
PROPERTY SyncEnds
CHECK_DEADLOCK FALSE
