SPECIFICATION FairSpec
CONSTANTS
 MaxCalls = 2
 r1 = r1
 a = a
 b = b
 Reapers = {r1}
 Runtimes = {a, b}
 Listings <- MCListings
 Faults = {"crash","lapse","stall","error","shutdown","touch"}
 MaxJobs = 2
 MaxRevision = 2
 MaxFaults = 1
INVARIANT LiveJobOwnsParent
INVARIANT NoOrphan
INVARIANT SuccessIsApplied
PROPERTY ParentIsFreed
CHECK_DEADLOCK FALSE
